---- MODULE Spec2Model ----
(***************************************************************************)
(* Local package storage of the registry proxy-cache (LocalFS plugin) and   *)
(* the tarball pipeline of the storage facade, as state machines over one   *)
(* package directory:                                                       *)
(*   <root>/<pkg>/package.json, its staged temp files and its lock,         *)
(*   <root>/<pkg>/<filename> and its staged <filename>.tmp-<rand> files.    *)
(* Every await / callback boundary of the code is one step of a task.       *)
(***************************************************************************)
EXTENDS Integers, Sequences, FiniteSets, TLC

\* Number of concurrent tasks (requests) running against the package.
NumProcs == 2
\* Injected environment failures (I/O error, failing unlock) per behaviour.
MaxFaults == 1

Procs == 1..NumProcs

VARIABLES
    pkgJson0,    \* content of package.json when the tasks started
    win32,       \* process.platform === 'win32'
    dirExists,   \* the package directory <root>/<pkg> exists
    pkgJson,     \* content of package.json
    tmpFile,     \* per task: its staged package.json.tmp<rand>
    displaced,   \* per task: the old package.json moved aside (win32 rename)
    lockHolder,  \* task holding the package.json lock, 0 when free
    pc,          \* per task: position in its operation
    op,          \* per task: the operation it runs
    wr,          \* per task: manifest it is about to write
    rd,          \* per task: manifest it has read
    locked,      \* per task: the `locked` flag of updatePackage
    result,      \* per task: outcome delivered to the caller
    origErr,     \* per task: first error raised inside updatePackage
    unlockErr,   \* per task: an unlock attempt of this call failed
    bg,          \* per task: fire-and-forget unlinks still pending
    faults,      \* number of injected environment failures so far
    tarball,     \* content of <filename> in the package directory
    ttmp,        \* per task: its staging file <filename>.tmp-<rand> exists
    taside,      \* per task: tarball moved aside by the win32 rename
    fd,          \* per task: descriptor of its staging file
    opened,      \* per task: the `opened` flag of the write stream
    written,     \* per task: chunks written through the descriptor
    closing,     \* per task: "no", "end" (file.end()) or "destroy"
    closeL,      \* per task: handlers registered for the file's close event
    pend,        \* per task: fs calls issued and not yet executed
    aborted,     \* per task: the upload was cancelled
    existed,     \* per task: <filename> existed when the call was made
    up,          \* per task: upstream fetch of getTarball
    recv,        \* per task: chunks getTarball delivered to its caller
    sv,          \* per task: getTarball's `savestream` is set
    cancelled,   \* per task: the caller called abort() on getTarball's stream
    distfile,    \* the local manifest has a _distfiles[filename] entry
    fetches,     \* per task: uplink.fetchTarball calls made by serveFile
    proxyTo,     \* the configured uplinks with proxy access to the package
    uplink,      \* per task: the `uplink` serveFile fetches from
    enableRemote, \* per task: the enableRemote option of getTarballNext
    afterEnd,    \* per task: its getTarball call came after a cached fetch ended
    localManifest,  \* the package's manifest in local storage, NoManifest if none
    localManifest0, \* localManifest when the facade call started
    mop,            \* the facade call in progress
    mpc,            \* position of the facade call
    options,        \* its options: uplinksLook and the requested version
    data,           \* the local manifest the call works from, NoManifest if none
    found,          \* `found` of _syncUplinksMetadata
    upLinks,        \* `upLinks` of _syncUplinksMetadata: the uplinks selected
    packageInfo,    \* `packageInfo` of _syncUplinksMetadata
    ustate,         \* per uplink: progress of its iteratee in the fan-out
    upLinksErrors,  \* per uplink: the error its iteratee called back with
    remoteCalls,    \* per uplink: getRemoteMetadata calls made by this merge
    steps,          \* the checks and writes the call has performed, in order
    mresult,        \* outcome delivered to the caller of the facade
    locals,         \* getLocalDatabase: what storage holds for each listed name
    itemPkg,        \* getLocalDatabase: index of the package being read
    packages,       \* getLocalDatabase: the `packages` array
    dbpc,           \* getLocalDatabase: position of the call
    dbCallback,     \* getLocalDatabase: the callback invocations, in order
    filterLog,      \* the filter_metadata calls of the merge, in order
    plugin,         \* getTarballNext: the storage plugin, "local-fs" or "memory"
    size,           \* getTarballNext: chunks of the local tarball
    stage,          \* getTarballNext: where the call stands
    fileLeft,       \* getTarballNext: chunks not yet read from the file
    passStream,     \* chunks buffered in the memory plugin's passStream
    localTarballStream, \* chunks buffered in the facade's PassThrough
    consumed,       \* chunks the caller has read from the returned stream
    signalAborted,  \* the abort signal passed to getTarballNext has fired
    viaRoute,       \* getTarballNext is called by the GET /new route handler
    listener,       \* the handler has registered req.on('aborted')
    connAborted,    \* the client connection of the request was aborted
    changeCall,     \* the promise of the facade's changePackageNext
    localChange     \* the local storage's change operation

manVars == <<pkgJson0, dirExists, pkgJson, tmpFile, displaced, lockHolder, wr,
             rd, locked, origErr, unlockErr, bg>>

getVars == <<up, recv, sv, cancelled, distfile, fetches>>

reqVars == <<enableRemote, afterEnd>>

srvVars == <<proxyTo, uplink>>

tarVars == <<tarball, ttmp, taside, fd, opened, written, closing, closeL, pend,
             aborted, existed, getVars, reqVars, srvVars>>

mergeVars == <<localManifest, localManifest0, mop, mpc, options, data, found,
               upLinks, packageInfo, ustate, upLinksErrors, remoteCalls, steps,
               mresult>>

dbVars == <<locals, itemPkg, packages, dbpc, dbCallback>>

pipeVars == <<plugin, size, stage, fileLeft, passStream, localTarballStream,
              consumed, signalAborted, viaRoute, listener, connAborted,
              changeCall, localChange>>

facadeVars == <<mergeVars, dbVars, filterLog, pipeVars>>

vars == <<pkgJson0, win32, dirExists, pkgJson, tmpFile, displaced, lockHolder,
          pc, op, wr, rd, locked, result, origErr, unlockErr, bg, faults,
          tarVars, facadeVars>>

fsVars == <<pkgJson0, win32, dirExists, pkgJson, tmpFile, displaced, lockHolder>>

-----------------------------------------------------------------------------
(* File contents.  A manifest is abstracted to the set of tasks whose       *)
(* publish / update it contains; a file is absent, empty (created but not   *)
(* written: not parseable), or holds a complete JSON manifest.              *)

Manifests == SUBSET Procs

Absent == [kind |-> "absent", m |-> {}]

Empty == [kind |-> "empty", m |-> {}]

Json(m) == [kind |-> "json", m |-> m]

fileExist == "EEXISTS"

noSuchFile == "ENOENT"

resourceNotAvailable == "EAGAIN"

\* errorUtils.getInternalError('resource temporarily unavailable')
InternalUnavailable == "INTERNAL_ERROR:resource temporarily unavailable"

\* errorUtils.getNotFound()
NotFound == "NOT_FOUND"

NoErr == "none"

ManifestOps == {"createPackageNext", "createPackage", "savePackageNext",
                "savePackage", "updatePackageNext", "updatePackage",
                "readPackageNext", "hasPackage"}

\* operations that go through the promise-based write path
NextOps == {"createPackageNext", "savePackageNext", "updatePackageNext",
            "addPackageNext"}

-----------------------------------------------------------------------------
(* Initial state: no task has started.  The package may or may not exist,   *)
(* and a package that exists has its directory.                             *)

\* A tarball is a prefix of the chunks of one upload: `by` is the task that
\* uploaded it (0: an upload that ended before the tasks started), `n` the
\* number of chunks it holds.
TotalChunks == 1

TAbsent == [kind |-> "absent", by |-> 0, n |-> 0]

TFile(by, n) == [kind |-> "file", by |-> by, n |-> n]

-----------------------------------------------------------------------------
(* Manifests as the storage facade sees them: the version keys, the         *)
(* dist-tags (pairs <<tag, version>>) and the freshness records _uplinks    *)
(* (per recorded uplink, the time elapsed since `fetched`).                 *)

\* Number of configured uplinks.
NumUplinks == 2
\* `maxage` of every uplink, in clock ticks.
Maxage == 1

Uplinks == 1..NumUplinks

VersionNames == <<"1.0.0", "2.0.0", "3.0.0">>

\* the version an uplink serves for the package
RemoteVersion(u) == VersionNames[u]

\* a version that was published locally
LocalVersion == "0.0.0"

\* a version every uplink serves: its record as served by uplink u, which
\* updateVersionsHiddenUpLink marks with the uplink's name
SharedRecords == <<"4.0.0 (a)", "4.0.0 (b)", "4.0.0 (c)">>

SharedRecord(u) == SharedRecords[u]

\* the key of a version record in `versions`
Key(rec) ==
    IF \E u \in Uplinks : rec = SharedRecord(u) THEN "4.0.0" ELSE rec

Vers == {LocalVersion} \cup {RemoteVersion(u) : u \in Uplinks}

Tags == {"latest", "beta"}

\* time elapsed since a recorded fetch: fresh, exactly maxage old, older
Ages == 0..(Maxage + 1)

NoManifest == [nil |-> TRUE]

Manifest(v, t, u) == [versions |-> v, distTags |-> t, uplinks |-> u]

UplinkRecords == UNION {[U -> Ages] : U \in SUBSET Uplinks}

\* manifests that local storage can hold: versions published locally or
\* cached from the first uplink, tags set on the local version (a tag may
\* outlive its version, except `latest`)
StoredManifests ==
    {Manifest(v, t, u) :
        v \in SUBSET {LocalVersion, RemoteVersion(1)},
        t \in SUBSET {<<"latest", LocalVersion>>, <<"beta", LocalVersion>>},
        u \in UplinkRecords}

LatestValid(m) == \A a \in m.distTags : a[1] = "latest" => a[2] \in m.versions

NoVersion == "undefined"

\* opts.version of a request: a version key, a tag, neither, or not set
Queries == {LocalVersion, RemoteVersion(1), "9.9.9", NoVersion} \cup Tags

MergeIdle ==
    /\ mop = "none"
    /\ mpc = "idle"
    /\ options = [uplinksLook |-> TRUE, version |-> NoVersion]
    /\ data = NoManifest
    /\ found = FALSE
    /\ upLinks = {}
    /\ packageInfo = NoManifest
    /\ ustate = [u \in Uplinks |-> "wait"]
    /\ upLinksErrors = [u \in Uplinks |-> "none"]
    /\ remoteCalls = [u \in Uplinks |-> 0]
    /\ steps = <<>>
    /\ mresult = [err |-> "none", body |-> NoManifest, errors |-> {}]
    /\ filterLog = <<>>

PipeIdle ==
    /\ plugin = "local-fs"
    /\ size = 0
    /\ stage = "idle"
    /\ fileLeft = 0
    /\ passStream = 0
    /\ localTarballStream = 0
    /\ consumed = 0
    /\ signalAborted = FALSE
    /\ viaRoute = FALSE
    /\ listener = FALSE
    /\ connAborted = FALSE
    /\ changeCall = "idle"
    /\ localChange = "idle"

DbIdle ==
    /\ locals = <<>>
    /\ itemPkg = 0
    /\ packages = <<>>
    /\ dbpc = "idle"
    /\ dbCallback = <<>>

\* serveFile has not chosen an uplink
NoUplink == [kind |-> "none", id |-> 0, cache |-> FALSE]

\* the configured uplinks whose config.cache is set
CachingUplinks == {1}

InitTasks ==
    /\ win32 \in BOOLEAN
    /\ tmpFile = [p \in Procs |-> Absent]
    /\ displaced = [p \in Procs |-> Absent]
    /\ lockHolder = 0
    /\ pc = [p \in Procs |-> "idle"]
    /\ op = [p \in Procs |-> "none"]
    /\ wr = [p \in Procs |-> {}]
    /\ rd = [p \in Procs |-> {}]
    /\ locked = [p \in Procs |-> FALSE]
    /\ result = [p \in Procs |-> "none"]
    /\ origErr = [p \in Procs |-> NoErr]
    /\ unlockErr = [p \in Procs |-> FALSE]
    /\ bg = [p \in Procs |-> {}]
    /\ faults = 0
    /\ ttmp = [p \in Procs |-> FALSE]
    /\ taside = [p \in Procs |-> TAbsent]
    /\ fd = [p \in Procs |-> "none"]
    /\ opened = [p \in Procs |-> FALSE]
    /\ written = [p \in Procs |-> 0]
    /\ closing = [p \in Procs |-> "no"]
    /\ closeL = [p \in Procs |-> {}]
    /\ pend = [p \in Procs |-> {}]
    /\ aborted = [p \in Procs |-> FALSE]
    /\ existed = [p \in Procs |-> FALSE]
    /\ up = [p \in Procs |-> "none"]
    /\ recv = [p \in Procs |-> 0]
    /\ sv = [p \in Procs |-> FALSE]
    /\ cancelled = [p \in Procs |-> FALSE]
    /\ enableRemote = [p \in Procs |-> TRUE]
    /\ afterEnd = [p \in Procs |-> FALSE]
    /\ fetches = [p \in Procs |-> 0]
    /\ proxyTo = [known |-> FALSE, to |-> {}]
    /\ uplink = [p \in Procs |-> NoUplink]

Init ==
    /\ InitTasks
    /\ tarball = TAbsent
    /\ dirExists \in BOOLEAN
    /\ pkgJson \in (IF dirExists THEN {Absent, Json({})} ELSE {Absent})
    /\ pkgJson0 = pkgJson
    /\ distfile = FALSE
    /\ localManifest = NoManifest
    /\ localManifest0 = NoManifest
    /\ MergeIdle
    /\ PipeIdle
    /\ DbIdle

\* the call of task p returns / calls back with outcome r
Finish(p, r) ==
    /\ pc' = [pc EXCEPT ![p] = "done"]
    /\ result' = [result EXCEPT ![p] = r]

Outcome(e) == IF e = NoErr THEN "ok" ELSE e

-----------------------------------------------------------------------------
(* writeFileNext / writeTempFileAndRename / renameTmpNext  and              *)
(* _writeFile / renameTmp: stage the content in a temp file, rename it.     *)

\* completion of the write of task p with error e (NoErr on success):
\* updatePackage continues with unLockCallback, every other caller returns.
WriteDone(p, e) ==
    IF op[p] = "updatePackage"
    THEN /\ pc' = [pc EXCEPT ![p] = "ul_unlock"]
         /\ origErr' = [origErr EXCEPT ![p] = e]
         /\ UNCHANGED result
    ELSE /\ Finish(p, Outcome(e))
         /\ UNCHANGED origErr

\* writeFilePromise(tempFilePath, content) / fs.writeFile(tempFilePath, data)
WriteTmp(p) ==
    /\ pc[p] = "w_tmp"
    /\ \/ /\ ~dirExists
          /\ pc' = [pc EXCEPT ![p] = "w_mkdir"]
          /\ UNCHANGED <<tmpFile, result, origErr, faults>>
       \/ /\ dirExists
          /\ tmpFile' = [tmpFile EXCEPT ![p] = Json(wr[p])]
          /\ pc' = [pc EXCEPT ![p] = "w_rename"]
          /\ UNCHANGED <<result, origErr, faults>>
       \/ /\ dirExists
          /\ faults < MaxFaults
          /\ faults' = faults + 1
          /\ \E left \in {Absent, Empty} :
                tmpFile' = [tmpFile EXCEPT ![p] = left]
          /\ WriteDone(p, "EIO")
    /\ UNCHANGED <<pkgJson0, win32, dirExists, pkgJson, displaced, lockHolder, op, wr,
                   rd, locked, unlockErr, bg>>

\* mkdirPromise(dir, {recursive: true}) / fs.mkdir(...), then the retry
MkDir(p) ==
    /\ pc[p] = "w_mkdir"
    /\ dirExists' = TRUE
    /\ pc' = [pc EXCEPT ![p] = "w_tmp"]
    /\ UNCHANGED <<pkgJson0, win32, pkgJson, tmpFile, displaced, lockHolder, op, wr, rd,
                   locked, result, origErr, unlockErr, bg, faults>>

\* non-win32 branch: rename(src, dst)
RenamePosix(p) ==
    /\ pc[p] = "w_rename"
    /\ ~win32
    /\ \/ /\ pkgJson' = tmpFile[p]
          /\ tmpFile' = [tmpFile EXCEPT ![p] = Absent]
          /\ WriteDone(p, NoErr)
          /\ UNCHANGED <<bg, faults>>
       \/ /\ faults < MaxFaults
          /\ faults' = faults + 1
          /\ UNCHANGED <<pkgJson, tmpFile>>
          /\ IF op[p] \in NextOps
             THEN \* renameTmpNext: catch, unlink(src), no rethrow
                  /\ pc' = [pc EXCEPT ![p] = "w_unlink_src"]
                  /\ UNCHANGED <<result, origErr, bg>>
             ELSE \* renameTmp: fs.unlink(src, () => {}); _cb(err)
                  /\ bg' = [bg EXCEPT ![p] = @ \cup {"tmp"}]
                  /\ WriteDone(p, "EPERM")
    /\ UNCHANGED <<pkgJson0, win32, dirExists, displaced, lockHolder, op, wr, rd, locked,
                   unlockErr>>

\* renameTmpNext, catch branch: await unlinkPromise(src), then return
UnlinkSrc(p) ==
    /\ pc[p] = "w_unlink_src"
    /\ tmpFile' = [tmpFile EXCEPT ![p] = Absent]
    /\ WriteDone(p, NoErr)
    /\ UNCHANGED <<pkgJson0, win32, dirExists, pkgJson, displaced, lockHolder, op, wr,
                   rd, locked, unlockErr, bg, faults>>

\* win32 branch, first rename: rename(dst, tempFile(dst))
RenameWin32Aside(p) ==
    /\ pc[p] = "w_rename"
    /\ win32
    /\ IF pkgJson.kind # "absent"
       THEN /\ displaced' = [displaced EXCEPT ![p] = pkgJson]
            /\ pkgJson' = Absent
            /\ IF op[p] \in NextOps
               THEN \* renameTmpNext: next statement is unlinkPromise(tmp)
                    /\ pc' = [pc EXCEPT ![p] = "w_unlink_aside"]
                    /\ UNCHANGED bg
               ELSE \* renameTmp: fs.rename(src, dst, cb); fs.unlink(tmp)
                    /\ pc' = [pc EXCEPT ![p] = "w_rename2"]
                    /\ bg' = [bg EXCEPT ![p] = @ \cup {"aside"}]
       ELSE \* dst does not exist: the rename fails, src is renamed in
            /\ pc' = [pc EXCEPT ![p] = "w_rename2"]
            /\ UNCHANGED <<displaced, pkgJson, bg>>
    /\ UNCHANGED <<pkgJson0, win32, dirExists, tmpFile, lockHolder, op, wr, rd, locked,
                   result, origErr, unlockErr, faults>>

\* renameTmpNext, win32 try block: await unlinkPromise(tmp), then return
UnlinkAside(p) ==
    /\ pc[p] = "w_unlink_aside"
    /\ displaced' = [displaced EXCEPT ![p] = Absent]
    /\ WriteDone(p, NoErr)
    /\ UNCHANGED <<pkgJson0, win32, dirExists, pkgJson, tmpFile, lockHolder, op, wr, rd,
                   locked, unlockErr, bg, faults>>

\* win32 branch, second rename: rename(src, dst)
RenameWin32In(p) ==
    /\ pc[p] = "w_rename2"
    /\ \/ /\ pkgJson' = tmpFile[p]
          /\ tmpFile' = [tmpFile EXCEPT ![p] = Absent]
          /\ WriteDone(p, NoErr)
          /\ UNCHANGED <<bg, faults>>
       \/ /\ faults < MaxFaults
          /\ faults' = faults + 1
          /\ UNCHANGED <<pkgJson, tmpFile>>
          /\ IF op[p] \in NextOps
             THEN UNCHANGED bg
             ELSE bg' = [bg EXCEPT ![p] = @ \cup {"tmp"}]
          /\ WriteDone(p, "EPERM")
    /\ UNCHANGED <<pkgJson0, win32, dirExists, displaced, lockHolder, op, wr, rd, locked,
                   unlockErr>>

\* a fire-and-forget fs.unlink(..., () => {}) of renameTmp completes
BgUnlink(p) ==
    /\ \E f \in bg[p] :
        /\ bg' = [bg EXCEPT ![p] = @ \ {f}]
        /\ IF f = "tmp"
           THEN /\ tmpFile' = [tmpFile EXCEPT ![p] = Absent]
                /\ UNCHANGED displaced
           ELSE /\ displaced' = [displaced EXCEPT ![p] = Absent]
                /\ UNCHANGED tmpFile
    /\ UNCHANGED <<pkgJson0, win32, dirExists, pkgJson, lockHolder, pc, op, wr, rd,
                   locked, result, origErr, unlockErr, faults>>

-----------------------------------------------------------------------------
(* createPackageNext / createPackage (_createFile): open(path, 'wx'), then  *)
(* the temp-file write.  Only EEXIST is turned into a conflict; any other   *)
(* error of the open (ENOENT: no package directory yet) is dropped.         *)

CreateOpen(p, o) ==
    /\ pc[p] = "idle"
    /\ op' = [op EXCEPT ![p] = o]
    /\ wr' = [wr EXCEPT ![p] = {p}]
    /\ IF pkgJson.kind # "absent"
       THEN /\ Finish(p, fileExist)
            /\ UNCHANGED pkgJson
       ELSE /\ pc' = [pc EXCEPT ![p] = "w_tmp"]
            /\ pkgJson' = IF dirExists THEN Empty ELSE pkgJson
            /\ UNCHANGED result
    /\ UNCHANGED <<pkgJson0, win32, dirExists, tmpFile, displaced, lockHolder, rd,
                   locked, origErr, unlockErr, bg, faults>>

createPackageNext(p) == CreateOpen(p, "createPackageNext")

createPackage(p) == CreateOpen(p, "createPackage")

-----------------------------------------------------------------------------
(* addPackageNext of the storage facade as one of several concurrent calls: *)
(* the local check, the uplink check and the creation are separate awaits.  *)

\* addPackageNext(name, metadata): checkPackageLocal reads the package's
\* manifest; a manifest is a conflict, an unreadable file an error
addPackageNextCall(p) ==
    /\ pc[p] = "idle"
    /\ op' = [op EXCEPT ![p] = "addPackageNext"]
    /\ wr' = [wr EXCEPT ![p] = {p}]
    /\ IF pkgJson.kind = "absent"
       THEN /\ pc' = [pc EXCEPT ![p] = "a_remote"]
            /\ UNCHANGED result
       ELSE Finish(p, IF pkgJson.kind = "json" THEN fileExist ELSE "SyntaxError")
    /\ UNCHANGED <<pkgJson0, win32, dirExists, pkgJson, tmpFile, displaced,
                   lockHolder, rd, locked, origErr, unlockErr, bg, faults>>

\* checkPackageRemote resolves: no uplink has the package
checkPackageRemoteResolved(p) ==
    /\ pc[p] = "a_remote"
    /\ pc' = [pc EXCEPT ![p] = "a_publish"]
    /\ UNCHANGED <<pkgJson0, win32, dirExists, pkgJson, tmpFile, displaced,
                   lockHolder, op, wr, rd, locked, result, origErr, unlockErr,
                   bg, faults>>

\* publishPackage: the package is created in local storage with
\* open(path, 'wx') and the temp-file write
publishPackageCreate(p) ==
    /\ pc[p] = "a_publish"
    /\ IF pkgJson.kind # "absent"
       THEN /\ Finish(p, fileExist)
            /\ UNCHANGED pkgJson
       ELSE /\ pc' = [pc EXCEPT ![p] = "w_tmp"]
            /\ pkgJson' = IF dirExists THEN Empty ELSE pkgJson
            /\ UNCHANGED result
    /\ UNCHANGED <<pkgJson0, win32, dirExists, tmpFile, displaced, lockHolder,
                   op, wr, rd, locked, origErr, unlockErr, bg, faults>>

-----------------------------------------------------------------------------
(* savePackageNext / savePackage: unconditional overwrite.                  *)

SaveStart(p, o) ==
    /\ pc[p] = "idle"
    /\ op' = [op EXCEPT ![p] = o]
    /\ wr' = [wr EXCEPT ![p] = {p}]
    /\ pc' = [pc EXCEPT ![p] = "w_tmp"]
    /\ UNCHANGED <<fsVars, rd, locked, result, origErr, unlockErr, bg, faults>>

savePackageNext(p) == SaveStart(p, "savePackageNext")

savePackage(p) == SaveStart(p, "savePackage")

-----------------------------------------------------------------------------
(* readPackageNext: readFile + JSON.parse;  hasPackage: stat().isFile().    *)

readPackageNext(p) ==
    /\ pc[p] = "idle"
    /\ op' = [op EXCEPT ![p] = "readPackageNext"]
    /\ rd' = [rd EXCEPT ![p] = pkgJson.m]
    /\ Finish(p, CASE pkgJson.kind = "absent" -> noSuchFile
                   [] pkgJson.kind = "empty" -> "SyntaxError"
                   [] OTHER -> "ok")
    /\ UNCHANGED <<fsVars, wr, locked, origErr, unlockErr, bg, faults>>

hasPackage(p) ==
    /\ pc[p] = "idle"
    /\ op' = [op EXCEPT ![p] = "hasPackage"]
    /\ Finish(p, IF pkgJson.kind = "absent" THEN "false" ELSE "true")
    /\ UNCHANGED <<fsVars, wr, rd, locked, origErr, unlockErr, bg, faults>>

-----------------------------------------------------------------------------
(* The advisory lock on package.json (readFile / readFileNext with          *)
(* {lock: true, parse: true}, unlockFile / unlockFileNext): take the lock,  *)
(* then read and parse.  A missing file is reported before the lock is      *)
(* taken, a lock held by another task is reported as EAGAIN once the retry  *)
(* budget is used up.                                                       *)

lockFile(p) == lockHolder' = p

unlockFile(p) == lockHolder' = IF lockHolder = p THEN 0 ELSE lockHolder

\* error of the lock attempt, NoErr when the lock can be taken
LockError == 
    CASE pkgJson.kind = "absent" -> noSuchFile
      [] lockHolder # 0 -> resourceNotAvailable
      [] OTHER -> NoErr

\* error of the read-and-parse that follows the lock
ReadError ==
    CASE pkgJson.kind = "absent" -> noSuchFile
      [] pkgJson.kind = "empty" -> "SyntaxError"
      [] OTHER -> NoErr

\* the mapping of an error raised while `locked` is still false
MapLockError(e) ==
    CASE e = resourceNotAvailable -> InternalUnavailable
      [] e = noSuchFile -> NotFound
      [] OTHER -> e

\* _lockAndReadJSONNext / _lockAndReadJSON, the lock part
UpdateLock(p, o, next) ==
    /\ pc[p] = "idle"
    /\ op' = [op EXCEPT ![p] = o]
    /\ IF LockError = NoErr
       THEN /\ lockFile(p)
            /\ pc' = [pc EXCEPT ![p] = next]
            /\ UNCHANGED result
       ELSE /\ Finish(p, MapLockError(LockError))
            /\ UNCHANGED lockHolder
    /\ UNCHANGED <<pkgJson0, win32, dirExists, pkgJson, tmpFile, displaced, wr, rd,
                   locked, origErr, unlockErr, bg, faults>>

\* _lockAndReadJSONNext / _lockAndReadJSON, the read part; `locked` is set
\* by the caller only when the read and the parse succeeded
UpdateRead(p, at, next) ==
    /\ pc[p] = at
    /\ IF ReadError = NoErr
       THEN /\ rd' = [rd EXCEPT ![p] = pkgJson.m]
            /\ locked' = [locked EXCEPT ![p] = TRUE]
            /\ pc' = [pc EXCEPT ![p] = next]
            /\ UNCHANGED result
       ELSE /\ Finish(p, MapLockError(ReadError))
            /\ UNCHANGED <<rd, locked>>
    /\ UNCHANGED <<fsVars, op, wr, origErr, unlockErr, bg, faults>>

-----------------------------------------------------------------------------
(* updatePackageNext(packageName, handleUpdate)                             *)

updatePackageNext(p) == UpdateLock(p, "updatePackageNext", "un_read")

UpdateNextRead(p) == UpdateRead(p, "un_read", "un_handle")

\* manifestUpdated = await handleUpdate(manifest): resolves or rejects
UpdateNextHandle(p) ==
    /\ pc[p] = "un_handle"
    /\ \/ /\ wr' = [wr EXCEPT ![p] = rd[p] \cup {p}]
          /\ pc' = [pc EXCEPT ![p] = "un_unlock"]
          /\ UNCHANGED origErr
       \/ /\ origErr' = [origErr EXCEPT ![p] = "HandlerError"]
          /\ pc' = [pc EXCEPT ![p] = "un_catch"]
          /\ UNCHANGED wr
    /\ UNCHANGED <<fsVars, op, rd, locked, result, unlockErr, bg, faults>>

\* try block: await this._unlockJSONNext(...); return manifestUpdated.
\* The returned manifest is written by the caller (savePackageNext).
UpdateNextUnlock(p) ==
    /\ pc[p] = "un_unlock"
    /\ \/ /\ unlockFile(p)
          /\ pc' = [pc EXCEPT ![p] = "w_tmp"]
          /\ result' = [result EXCEPT ![p] = "ok"]
          /\ UNCHANGED <<origErr, unlockErr, faults>>
       \/ /\ faults < MaxFaults
          /\ faults' = faults + 1
          /\ origErr' = [origErr EXCEPT ![p] = "UnlockError"]
          /\ unlockErr' = [unlockErr EXCEPT ![p] = TRUE]
          /\ pc' = [pc EXCEPT ![p] = "un_catch"]
          /\ UNCHANGED <<lockHolder, result>>
    /\ UNCHANGED <<pkgJson0, win32, dirExists, pkgJson, tmpFile, displaced, op, wr, rd,
                   locked, bg>>

\* catch block with locked = true:
\*   try { await unlock; throw err } catch (err) { throw InternalError }
UpdateNextCatch(p) ==
    /\ pc[p] = "un_catch"
    /\ \/ /\ unlockFile(p)
          /\ UNCHANGED <<unlockErr, faults>>
       \/ /\ faults < MaxFaults
          /\ faults' = faults + 1
          /\ unlockErr' = [unlockErr EXCEPT ![p] = TRUE]
          /\ UNCHANGED lockHolder
    /\ Finish(p, InternalUnavailable)
    /\ UNCHANGED <<pkgJson0, win32, dirExists, pkgJson, tmpFile, displaced, op, wr, rd,
                   locked, origErr, bg>>

-----------------------------------------------------------------------------
(* updatePackage(name, updateHandler, onWrite, transformPackage, onEnd)     *)

updatePackage(p) == UpdateLock(p, "updatePackage", "ul_read")

UpdateRead_cb(p) == UpdateRead(p, "ul_read", "ul_handler")

\* updateHandler(json, cb): cb(err) -> unLockCallback(err);
\* cb() -> onWrite(name, transformPackage(json), unLockCallback), where an
\* exception of transformPackage leaves the callback without reaching onEnd
UpdateHandler(p) ==
    /\ pc[p] = "ul_handler"
    /\ \/ /\ origErr' = [origErr EXCEPT ![p] = "HandlerError"]
          /\ pc' = [pc EXCEPT ![p] = "ul_unlock"]
          /\ UNCHANGED <<wr, result>>
       \/ /\ wr' = [wr EXCEPT ![p] = rd[p] \cup {p}]
          /\ pc' = [pc EXCEPT ![p] = "w_tmp"]
          /\ UNCHANGED <<origErr, result>>
       \/ /\ origErr' = [origErr EXCEPT ![p] = "TransformError"]
          /\ Finish(p, "uncaught:TransformError")
          /\ UNCHANGED wr
    /\ UNCHANGED <<fsVars, op, rd, locked, unlockErr, bg, faults>>

\* unLockCallback with locked = true: _unlockJSON, its error ignored, then
\* onEnd with the arguments unLockCallback was called with
unLockCallback(p) ==
    /\ pc[p] = "ul_unlock"
    /\ \/ /\ unlockFile(p)
          /\ UNCHANGED <<unlockErr, faults>>
       \/ /\ faults < MaxFaults
          /\ faults' = faults + 1
          /\ unlockErr' = [unlockErr EXCEPT ![p] = TRUE]
          /\ UNCHANGED lockHolder
    /\ Finish(p, Outcome(origErr[p]))
    /\ UNCHANGED <<pkgJson0, win32, dirExists, pkgJson, tmpFile, displaced, op, wr, rd,
                   locked, origErr, bg>>

-----------------------------------------------------------------------------
(* The manifest operations of the plugin, run by concurrent tasks.          *)

ManifestStep(p) ==
        \/ createPackageNext(p) /\ UNCHANGED <<tarVars, facadeVars>>
        \/ createPackage(p) /\ UNCHANGED <<tarVars, facadeVars>>
        \/ addPackageNextCall(p) /\ UNCHANGED <<tarVars, facadeVars>>
        \/ checkPackageRemoteResolved(p) /\ UNCHANGED <<tarVars, facadeVars>>
        \/ publishPackageCreate(p) /\ UNCHANGED <<tarVars, facadeVars>>
        \/ savePackageNext(p) /\ UNCHANGED <<tarVars, facadeVars>>
        \/ savePackage(p) /\ UNCHANGED <<tarVars, facadeVars>>
        \/ readPackageNext(p) /\ UNCHANGED <<tarVars, facadeVars>>
        \/ hasPackage(p) /\ UNCHANGED <<tarVars, facadeVars>>
        \/ updatePackageNext(p) /\ UNCHANGED <<tarVars, facadeVars>>
        \/ UpdateNextRead(p) /\ UNCHANGED <<tarVars, facadeVars>>
        \/ UpdateNextHandle(p) /\ UNCHANGED <<tarVars, facadeVars>>
        \/ UpdateNextUnlock(p) /\ UNCHANGED <<tarVars, facadeVars>>
        \/ UpdateNextCatch(p) /\ UNCHANGED <<tarVars, facadeVars>>
        \/ updatePackage(p) /\ UNCHANGED <<tarVars, facadeVars>>
        \/ UpdateRead_cb(p) /\ UNCHANGED <<tarVars, facadeVars>>
        \/ UpdateHandler(p) /\ UNCHANGED <<tarVars, facadeVars>>
        \/ unLockCallback(p) /\ UNCHANGED <<tarVars, facadeVars>>
        \/ WriteTmp(p) /\ UNCHANGED <<tarVars, facadeVars>>
        \/ MkDir(p) /\ UNCHANGED <<tarVars, facadeVars>>
        \/ RenamePosix(p) /\ UNCHANGED <<tarVars, facadeVars>>
        \/ UnlinkSrc(p) /\ UNCHANGED <<tarVars, facadeVars>>
        \/ RenameWin32Aside(p) /\ UNCHANGED <<tarVars, facadeVars>>
        \/ UnlinkAside(p) /\ UNCHANGED <<tarVars, facadeVars>>
        \/ RenameWin32In(p) /\ UNCHANGED <<tarVars, facadeVars>>
        \/ BgUnlink(p) /\ UNCHANGED <<tarVars, facadeVars>>

Next == \E p \in Procs : ManifestStep(p)

Spec == Init /\ [][Next]_vars

-----------------------------------------------------------------------------
(* Tarball writers: writeTarballNext (a fs.WriteStream on the staging file, *)
(* bound to an abort signal) and writeTarball (an UploadTarball piped into  *)
(* a fs.WriteStream on the staging file, with done() and abort()), used by  *)
(* uploads and by the cache write of getTarball.  fs calls that the code    *)
(* issues without awaiting each other are kept in `pend` and execute in any *)
(* order.                                                                   *)

UploadOps == {"writeTarballNext", "writeTarball"}

\* operations whose writer is the UploadTarball of writeTarball
WriterOps == {"writeTarball", "getTarball"}

\* the fs calls issued by the handlers of the file's close event
CloseCalls(p) ==
    (IF "rename" \in closeL[p] THEN {"rename"} ELSE {})
        \cup (IF "remove" \in closeL[p] THEN {"unlink"} ELSE {})

\* a task is done once its descriptor is closed, no fs call is pending and,
\* for getTarball, its upstream fetch is over
Settle(p, calls) ==
    /\ pend' = [pend EXCEPT ![p] = calls]
    /\ pc' = [pc EXCEPT ![p] =
                IF calls = {} /\ (op[p] = "getTarball" => up[p] \in {"ended", "error"})
                THEN "done" ELSE @]

\* writeTarballNext: createWriteStream(temporalName) and its handlers; the
\* close handler that renames the staging file is registered unconditionally
writeTarballNext(p) ==
    /\ pc[p] = "idle"
    /\ op' = [op EXCEPT ![p] = "writeTarballNext"]
    /\ pc' = [pc EXCEPT ![p] = "t_stream"]
    /\ fd' = [fd EXCEPT ![p] = "opening"]
    /\ closeL' = [closeL EXCEPT ![p] = {"rename"}]
    /\ existed' = [existed EXCEPT ![p] = tarball.kind = "file"]
    /\ UNCHANGED <<result, faults, tarball, ttmp, taside, opened, written,
                   closing, pend, aborted, getVars>>

\* writeTarball: new UploadTarball, fs.access(pathName, ...) is issued
writeTarball(p) ==
    /\ pc[p] = "idle"
    /\ op' = [op EXCEPT ![p] = "writeTarball"]
    /\ pc' = [pc EXCEPT ![p] = "t_access"]
    /\ existed' = [existed EXCEPT ![p] = tarball.kind = "file"]
    /\ UNCHANGED <<result, faults, tarball, ttmp, taside, fd, opened, written,
                   closing, closeL, pend, aborted, getVars>>

\* variant of on_open that is not replaced by its first call
on_open_Unguarded(p) ==
    /\ up' = [up EXCEPT ![p] = "open"]
    /\ fetches' = [fetches EXCEPT ![p] = @ + 1]

\* serveFile's on_open: its first call replaces it by the empty function
\* and starts uplink.fetchTarball(file.url); later calls do nothing
on_open(p) ==
    IF up[p] = "none"
    THEN /\ up' = [up EXCEPT ![p] = "open"]
         /\ fetches' = [fetches EXCEPT ![p] = @ + 1]
    ELSE UNCHANGED <<up, fetches>>

\* writeTarball, callback of fs.access.  <filename> exists: the upload
\* stream emits the conflict error; for getTarball the savestream error
\* handler calls abort(), clears savestream and starts the upstream fetch.
\* Otherwise createWriteStream(temporalName); done and abort are defined,
\* and an abort() called before this point takes effect now.
AccessCallback(p) ==
    /\ pc[p] = "t_access"
    /\ IF tarball.kind = "file"
       THEN /\ IF op[p] = "getTarball"
               THEN /\ pc' = [pc EXCEPT ![p] = "t_stream"]
                    /\ aborted' = [aborted EXCEPT ![p] = TRUE]
                    /\ sv' = [sv EXCEPT ![p] = FALSE]
                    /\ on_open(p)
                    /\ UNCHANGED result
               ELSE /\ Finish(p, fileExist)
                    /\ UNCHANGED <<aborted, sv, up, fetches>>
            /\ UNCHANGED <<fd, closing, pend>>
       ELSE /\ pc' = [pc EXCEPT ![p] = "t_stream"]
            /\ fd' = [fd EXCEPT ![p] = "opening"]
            /\ closing' = [closing EXCEPT ![p] = IF aborted[p] THEN "end" ELSE @]
            /\ pend' = [pend EXCEPT ![p] =
                            IF aborted[p] THEN @ \cup {"unlink"} ELSE @]
            /\ UNCHANGED <<result, aborted, sv, up, fetches>>
    /\ UNCHANGED <<op, faults, tarball, ttmp, taside, opened, written, closeL,
                   existed, recv,
                   cancelled, distfile>>

\* the staging file is created and opened: the 'open' event sets `opened`;
\* writeTarball re-emits it and getTarball's on_open starts the upstream
\* fetch, once
FileOpen(p) ==
    /\ fd[p] = "opening"
    /\ fd' = [fd EXCEPT ![p] = "open"]
    /\ ttmp' = [ttmp EXCEPT ![p] = TRUE]
    /\ opened' = [opened EXCEPT ![p] = TRUE]
    /\ IF op[p] = "getTarball" THEN on_open(p) ELSE UNCHANGED <<up, fetches>>
    /\ UNCHANGED <<pc, op, result, faults, tarball, taside, written, closing,
                   closeL, pend, aborted, existed, recv, sv,
                   cancelled, distfile>>

\* one chunk of the upload reaches the staging file
UploadWrite(p) ==
    /\ op[p] \in UploadOps
    /\ fd[p] = "open"
    /\ closing[p] = "no"
    /\ written[p] < TotalChunks
    /\ written' = [written EXCEPT ![p] = @ + 1]
    /\ UNCHANGED <<pc, op, result, faults, tarball, ttmp, taside, fd, opened,
                   closing, closeL, pend, aborted, existed, getVars>>

\* writeTarballNext: the caller ends the stream after its last chunk; the
\* stream finishes, the descriptor is closed and the close handlers run
StreamEnd(p) ==
    /\ op[p] = "writeTarballNext"
    /\ fd[p] = "open"
    /\ closing[p] = "no"
    /\ written[p] = TotalChunks
    /\ fd' = [fd EXCEPT ![p] = "closed"]
    /\ closing' = [closing EXCEPT ![p] = "end"]
    /\ result' = [result EXCEPT ![p] = "success"]
    /\ pend' = [pend EXCEPT ![p] = @ \cup CloseCalls(p)]
    /\ UNCHANGED <<pc, op, faults, tarball, ttmp, taside, opened, written,
                   closeL, aborted, existed, getVars>>

\* writeTarballNext: the signal aborts. addAbortSignal destroys the stream;
\* the plugin's abort listener removes the staging file, at once when the
\* file is not opened yet, else on close
SignalAbort(p) ==
    /\ op[p] = "writeTarballNext"
    /\ fd[p] \in {"opening", "open"}
    /\ ~aborted[p]
    /\ aborted' = [aborted EXCEPT ![p] = TRUE]
    /\ closing' = [closing EXCEPT ![p] = "destroy"]
    /\ result' = [result EXCEPT ![p] = "aborted"]
    /\ IF opened[p]
       THEN /\ closeL' = [closeL EXCEPT ![p] = @ \cup {"remove"}]
            /\ UNCHANGED pend
       ELSE /\ pend' = [pend EXCEPT ![p] = @ \cup {"unlink"}]
            /\ UNCHANGED closeL
    /\ UNCHANGED <<pc, op, faults, tarball, ttmp, taside, fd, opened, written,
                   existed, getVars>>

\* writeTarballNext: a write to the staging file fails, the stream destroys
\* itself
StreamWriteError(p) ==
    /\ op[p] = "writeTarballNext"
    /\ fd[p] = "open"
    /\ closing[p] = "no"
    /\ faults < MaxFaults
    /\ faults' = faults + 1
    /\ closing' = [closing EXCEPT ![p] = "destroy"]
    /\ result' = [result EXCEPT ![p] = "EIO"]
    /\ UNCHANGED <<pc, op, tarball, ttmp, taside, fd, opened, written, closeL,
                   pend, aborted, existed, getVars>>

\* writeTarballNext: a destroyed stream closes its descriptor once the file
\* is open, emits 'error' (the handler, `opened` being true, registers the
\* removal for close) and then 'close'
StreamDestroyClose(p) ==
    /\ op[p] = "writeTarballNext"
    /\ closing[p] = "destroy"
    /\ fd[p] = "open"
    /\ fd' = [fd EXCEPT ![p] = "closed"]
    /\ closeL' = [closeL EXCEPT ![p] = @ \cup {"remove"}]
    /\ pend' = [pend EXCEPT ![p] = @ \cup {"rename", "unlink"}]
    /\ UNCHANGED <<pc, op, result, faults, tarball, ttmp, taside, opened,
                   written, closing, aborted, existed, getVars>>

\* uploadStream.done(): on end of the upload the rename is registered for
\* the file's close and file.end() is called
DoneCalled(p) ==
    /\ closeL' = [closeL EXCEPT ![p] = @ \cup {"rename"}]
    /\ closing' = [closing EXCEPT ![p] = "end"]

\* uploadStream.abort() once the staging stream exists
AbortCalled(p) ==
    /\ aborted' = [aborted EXCEPT ![p] = TRUE]
    /\ closing' = [closing EXCEPT ![p] = "end"]
    /\ IF opened[p]
       THEN /\ opened' = [opened EXCEPT ![p] = FALSE]
            /\ closeL' = [closeL EXCEPT ![p] = @ \cup {"remove"}]
            /\ UNCHANGED pend
       ELSE /\ pend' = [pend EXCEPT ![p] = @ \cup {"unlink"}]
            /\ UNCHANGED <<opened, closeL>>

\* writeTarball: the uploader calls done() after its last chunk
UploadDone(p) ==
    /\ op[p] = "writeTarball"
    /\ pc[p] = "t_stream"
    /\ fd[p] = "open"
    /\ written[p] = TotalChunks
    /\ ~aborted[p]
    /\ "rename" \notin closeL[p]
    /\ DoneCalled(p)
    /\ UNCHANGED <<pc, op, result, faults, tarball, ttmp, taside, fd, opened,
                   written, pend, aborted, existed, getVars>>

\* writeTarball: the uploader calls abort(); before the fs.access callback
\* the call is only recorded
UploadAbort(p) ==
    /\ op[p] = "writeTarball"
    /\ ~aborted[p]
    /\ \/ pc[p] = "t_access"
       \/ pc[p] = "t_stream" /\ fd[p] \in {"opening", "open"}
    /\ IF pc[p] = "t_access"
       THEN /\ aborted' = [aborted EXCEPT ![p] = TRUE]
            /\ UNCHANGED <<opened, closeL, pend, closing>>
       ELSE AbortCalled(p)
    /\ result' = [result EXCEPT ![p] = "aborted"]
    /\ UNCHANGED <<pc, op, faults, tarball, ttmp, taside, fd, written,
                   existed, getVars>>

\* writeTarball: after file.end() the descriptor is closed and the handlers
\* registered for close run
FileClose(p) ==
    /\ op[p] \in WriterOps
    /\ closing[p] = "end"
    /\ fd[p] = "open"
    /\ fd' = [fd EXCEPT ![p] = "closed"]
    /\ Settle(p, pend[p] \cup CloseCalls(p))
    /\ UNCHANGED <<op, result, faults, tarball, ttmp, taside, opened, written,
                   closing, closeL, aborted, existed, getVars>>

\* renameTmp's callback emits 'success' on the upload stream; the other
\* callers have no such event
RenamedResult(p) ==
    IF op[p] = "writeTarball" THEN "success" ELSE result[p]

\* the rename finds no staging file: renameTmp passes the error to its
\* callback, renameTmpNext and its caller swallow it
RenameFailedResult(p) ==
    IF op[p] = "writeTarball" THEN noSuchFile ELSE result[p]

\* rename(src, dst) of the staging file onto <filename>
MoveIn(p, rest) ==
    /\ IF ttmp[p]
       THEN /\ tarball' = TFile(p, written[p])
            /\ ttmp' = [ttmp EXCEPT ![p] = FALSE]
            /\ result' = [result EXCEPT ![p] = RenamedResult(p)]
       ELSE /\ UNCHANGED <<tarball, ttmp>>
            /\ result' = [result EXCEPT ![p] = RenameFailedResult(p)]
    /\ Settle(p, rest)
    /\ UNCHANGED taside

\* renameTmp / renameTmpNext on the staging file, first fs call: the rename
\* itself, or on win32 the rename of <filename> to a fresh name
TarRename(p) ==
    /\ "rename" \in pend[p]
    /\ fd[p] = "closed"
    /\ IF ~win32
       THEN MoveIn(p, pend[p] \ {"rename"})
       ELSE IF tarball.kind = "file"
            THEN /\ taside' = [taside EXCEPT ![p] = tarball]
                 /\ tarball' = TAbsent
                 /\ Settle(p, (pend[p] \ {"rename"}) \cup
                        (IF op[p] = "writeTarballNext"
                         THEN {"unlink_aside"}
                         ELSE {"rename_in", "unlink_aside"}))
                 /\ UNCHANGED <<ttmp, result>>
            ELSE /\ Settle(p, (pend[p] \ {"rename"}) \cup {"rename_in"})
                 /\ UNCHANGED <<tarball, taside, ttmp, result>>
    /\ UNCHANGED <<op, faults, fd, opened, written, closing, closeL, aborted,
                   existed, getVars>>

\* win32: rename(src, dst) after the old file was moved aside or was absent
TarRenameIn(p) ==
    /\ "rename_in" \in pend[p]
    /\ MoveIn(p, pend[p] \ {"rename_in"})
    /\ UNCHANGED <<op, faults, fd, opened, written, closing, closeL, aborted,
                   existed, getVars>>

\* win32: unlink of the file moved aside
TarUnlinkAside(p) ==
    /\ "unlink_aside" \in pend[p]
    /\ taside' = [taside EXCEPT ![p] = TAbsent]
    /\ Settle(p, pend[p] \ {"unlink_aside"})
    /\ UNCHANGED <<op, result, faults, tarball, ttmp, fd, opened, written,
                   closing, closeL, aborted, existed, getVars>>

\* removeTempFile: unlink(temporalName); an unlink issued before the file
\* is created finds nothing
TarUnlink(p) ==
    /\ "unlink" \in pend[p]
    /\ ttmp' = [ttmp EXCEPT ![p] = FALSE]
    /\ IF fd[p] = "closed"
       THEN Settle(p, pend[p] \ {"unlink"})
       ELSE /\ pend' = [pend EXCEPT ![p] = @ \ {"unlink"}]
            /\ UNCHANGED pc
    /\ UNCHANGED <<op, result, faults, tarball, taside, fd, opened, written,
                   closing, closeL, aborted, existed, getVars>>

-----------------------------------------------------------------------------
(* getTarball of the storage facade: local read, then on a local 404 the    *)
(* manifest lookup and serveFile, which fetches from the uplink and, when   *)
(* the uplink caches, tees the bytes into a writeTarball cache writer.      *)

\* getTarball: localStorage.getTarball(name, filename) is opened
\* a getTarball request that fell back to a caching uplink has delivered
\* end-of-stream to its caller: rstream2 ended with the savestream set
EndDelivered(q) == op[q] = "getTarball" /\ up[q] = "ended" /\ sv[q]

getTarball(p) ==
    /\ pc[p] = "idle"
    /\ op' = [op EXCEPT ![p] = "getTarball"]
    /\ pc' = [pc EXCEPT ![p] = "g_local"]
    /\ existed' = [existed EXCEPT ![p] = tarball.kind = "file"]
    /\ afterEnd' = [afterEnd EXCEPT ![p] = \E q \in Procs : EndDelivered(q)]
    /\ UNCHANGED enableRemote
    /\ UNCHANGED <<result, faults, tarball, ttmp, taside, fd, opened, written,
                   closing, closeL, pend, aborted, getVars>>

\* the local stream opens and is piped to the caller, or reports 404 and
\* getPackageMetadata is called, or fails otherwise
LocalStream(p) ==
    /\ pc[p] = "g_local"
    /\ \/ /\ tarball.kind = "file"
          /\ recv' = [recv EXCEPT ![p] = tarball.n]
          /\ pc' = [pc EXCEPT ![p] = "g_open"]
          /\ UNCHANGED <<result, faults>>
       \/ /\ tarball.kind = "absent"
          /\ pc' = [pc EXCEPT ![p] = "g_meta"]
          /\ UNCHANGED <<result, recv, faults>>
       \/ /\ tarball.kind = "file"
          /\ faults < MaxFaults
          /\ faults' = faults + 1
          /\ Finish(p, "EIO")
          /\ UNCHANGED recv
    /\ UNCHANGED <<op, tarball, ttmp, taside, fd, opened, written, closing,
                   closeL, pend, aborted, existed, up, sv,
                   cancelled, distfile>>
    /\ UNCHANGED fetches

\* the errors a read stream can report: the file is missing, or the read
\* failed
ReadErrors == {NotFound, "EIO"}

\* getTarball after the local stream's open (isOpen is true): the stream
\* ends, or it reports an error, which the error handler emits to the
\* caller whatever its status
LocalStreamOpened(p) ==
    /\ pc[p] = "g_open"
    /\ \/ /\ Finish(p, "ok")
          /\ UNCHANGED faults
       \/ /\ faults < MaxFaults
          /\ faults' = faults + 1
          /\ \E err \in ReadErrors : Finish(p, err)
    /\ UNCHANGED <<op, tarball, ttmp, taside, fd, opened, written, closing,
                   closeL, pend, aborted, existed, getVars>>

\* the uplink serveFile uses when `access` are the configured uplinks with
\* proxy access: the loop keeps the last match
ChosenUplink(access) ==
    IF access = {}
    THEN [kind |-> "adhoc", id |-> 0, cache |-> TRUE]
    ELSE LET u == CHOOSE x \in access : \A y \in access : y <= x
         IN  [kind |-> "configured", id |-> u, cache |-> u \in CachingUplinks]

\* variant of serveFile that opens the savestream whatever the uplink's
\* config.cache says
serveFile_AlwaysCache(p) ==
    \E access \in SUBSET Uplinks :
        /\ proxyTo.known => access = proxyTo.to
        /\ proxyTo' = [known |-> TRUE, to |-> access]
        /\ uplink' = [uplink EXCEPT ![p] = ChosenUplink(access)]
        /\ sv' = [sv EXCEPT ![p] = TRUE]
        /\ pc' = [pc EXCEPT ![p] = "t_access"]
        /\ UNCHANGED <<up, fetches>>

\* serveFile(file): the last configured uplink with proxy access is chosen,
\* an ad-hoc caching one if there is none; with uplink.config.cache the
\* savestream is opened by addTarball and on_open waits for its open or
\* error event, else on_open runs at once
serveFile(p) ==
    \E access \in SUBSET Uplinks :
        /\ proxyTo.known => access = proxyTo.to
        /\ proxyTo' = [known |-> TRUE, to |-> access]
        /\ uplink' = [uplink EXCEPT ![p] = ChosenUplink(access)]
        /\ IF ChosenUplink(access).cache
           THEN /\ sv' = [sv EXCEPT ![p] = TRUE]
                /\ pc' = [pc EXCEPT ![p] = "t_access"]
                /\ UNCHANGED <<up, fetches>>
           ELSE /\ on_open(p)
                /\ pc' = [pc EXCEPT ![p] = "t_stream"]
                /\ UNCHANGED sv

\* callback of getPackageMetadata: serveFile when the manifest has
\* _distfiles[filename], else _syncUplinksMetadata is called
MetadataCallback(p) ==
    /\ pc[p] = "g_meta"
    /\ IF distfile
       THEN serveFile(p)
       ELSE /\ pc' = [pc EXCEPT ![p] = "g_sync"]
            /\ UNCHANGED <<up, sv, fetches, srvVars>>
    /\ UNCHANGED <<op, result, faults, tarball, ttmp, taside, fd, opened,
                   written, closing, closeL, pend, aborted, existed, recv,
                   cancelled, distfile>>

\* callback of _syncUplinksMetadata: an error, or a manifest without
\* _distfiles[filename] (the local 404 is emitted), or the manifest merged
\* with the uplinks and stored by updateVersions has the entry: serveFile
SyncCallback(p) ==
    /\ pc[p] = "g_sync"
    /\ \/ /\ serveFile(p)
          /\ distfile' = TRUE
          /\ UNCHANGED result
       \/ /\ \E e \in {"SyncError", NotFound} : Finish(p, e)
          /\ UNCHANGED <<up, sv, distfile, fetches, srvVars>>
    /\ UNCHANGED <<op, faults, tarball, ttmp, taside, fd, opened, written,
                   closing, closeL, pend, aborted, existed, recv,
                   cancelled>>

\* getTarballNext(name, filename, {signal, enableRemote}): the local read
\* stream is obtained
getTarballNext(p) ==
    /\ pc[p] = "idle"
    /\ op' = [op EXCEPT ![p] = "getTarballNext"]
    /\ pc' = [pc EXCEPT ![p] = "n_local"]
    /\ existed' = [existed EXCEPT ![p] = tarball.kind = "file"]
    /\ \E e \in BOOLEAN : enableRemote' = [enableRemote EXCEPT ![p] = e]
    /\ UNCHANGED <<result, faults, tarball, ttmp, taside, fd, opened, written,
                   closing, closeL, pend, aborted, getVars, afterEnd>>

\* await pipeline(localStream, localTarballStream): the local bytes are
\* returned, or the read fails and the error is thrown on, or the file is
\* missing and getPackageLocalMetadata is awaited
LocalPipeline(p) ==
    /\ pc[p] = "n_local"
    /\ \/ /\ tarball.kind = "file"
          /\ recv' = [recv EXCEPT ![p] = tarball.n]
          /\ pc' = [pc EXCEPT ![p] = "n_open"]
          /\ UNCHANGED <<result, faults>>
       \/ /\ tarball.kind = "absent"
          /\ pc' = [pc EXCEPT ![p] = "n_meta"]
          /\ UNCHANGED <<result, recv, faults>>
       \/ /\ tarball.kind = "file"
          /\ faults < MaxFaults
          /\ faults' = faults + 1
          /\ Finish(p, "EIO")
          /\ UNCHANGED recv
    /\ UNCHANGED <<op, tarball, ttmp, taside, fd, opened, written, closing,
                   closeL, pend, aborted, existed, up, sv, cancelled, distfile,
                   reqVars>>
    /\ UNCHANGED fetches

\* getTarballNext after the local stream's open: the pipeline completes,
\* or it rejects; the catch block tests the error's code only
PipelineOpened(p) ==
    /\ pc[p] = "n_open"
    /\ \/ /\ Finish(p, "ok")
          /\ UNCHANGED faults
       \/ /\ faults < MaxFaults
          /\ faults' = faults + 1
          /\ \E err \in ReadErrors :
                IF err = NotFound
                THEN /\ pc' = [pc EXCEPT ![p] = "n_meta"]
                     /\ UNCHANGED result
                ELSE Finish(p, err)
    /\ UNCHANGED <<op, tarball, ttmp, taside, fd, opened, written, closing,
                   closeL, pend, aborted, existed, getVars, reqVars>>

\* the manifest is read; whatever it holds for the file, the tarball is
\* requested from the uplink and the remote stream goes to the caller, or
\* the request fails and the error is thrown on
fetchTarllballFromUpstream(p) ==
    /\ pc[p] = "n_meta"
    /\ \/ /\ up' = [up EXCEPT ![p] = "open"]
          /\ Finish(p, "ok")
          /\ UNCHANGED faults
       \/ /\ faults < MaxFaults
          /\ faults' = faults + 1
          /\ up' = [up EXCEPT ![p] = "error"]
          /\ Finish(p, "UpstreamError")
    /\ UNCHANGED <<op, tarball, ttmp, taside, fd, opened, written, closing,
                   closeL, pend, aborted, existed, recv, sv, cancelled,
                   distfile, reqVars>>
    /\ UNCHANGED fetches

\* the writer of this request has nothing left to do
WriterQuiet(p) == fd[p] \in {"none", "closed"} /\ pend[p] = {}

\* variant of UpstreamData in which rstream2 is piped to the caller only
UpstreamData_CallerOnly(p) ==
    /\ op[p] = "getTarball"
    /\ up[p] = "open"
    /\ recv[p] < TotalChunks
    /\ recv' = [recv EXCEPT ![p] = @ + 1]
    /\ UNCHANGED <<pc, op, result, faults, tarball, ttmp, taside, fd, opened,
                   written, closing, closeL, pend, aborted, existed, up, sv,
                   cancelled, distfile>>
    /\ UNCHANGED fetches

\* rstream2 delivers a chunk: piped to the caller and to the savestream
UpstreamData(p) ==
    /\ op[p] = "getTarball"
    /\ up[p] = "open"
    /\ recv[p] < TotalChunks
    /\ recv' = [recv EXCEPT ![p] = @ + 1]
    /\ written' = [written EXCEPT ![p] =
                     IF sv[p] /\ fd[p] = "open" /\ closing[p] = "no"
                     THEN @ + 1 ELSE @]
    /\ UNCHANGED <<pc, op, result, faults, tarball, ttmp, taside, fd, opened,
                   closing, closeL, pend, aborted, existed, up, sv,
                   cancelled, distfile>>
    /\ UNCHANGED fetches

\* rstream2 'end': savestream.done() when a savestream is set
UpstreamEnd(p) ==
    /\ op[p] = "getTarball"
    /\ up[p] = "open"
    /\ recv[p] = TotalChunks
    /\ up' = [up EXCEPT ![p] = "ended"]
    /\ result' = [result EXCEPT ![p] = "ok"]
    /\ IF sv[p]
       THEN /\ DoneCalled(p)
            /\ UNCHANGED pc
       ELSE /\ pc' = [pc EXCEPT ![p] = IF WriterQuiet(p) THEN "done" ELSE @]
            /\ UNCHANGED <<closeL, closing>>
    /\ UNCHANGED <<op, faults, tarball, ttmp, taside, fd, opened, written,
                   pend, aborted, existed, recv, sv,
                   cancelled, distfile>>
    /\ UNCHANGED fetches

\* variant of UpstreamError in which the savestream is ended with done()
UpstreamError_Done(p) ==
    /\ op[p] = "getTarball"
    /\ up[p] = "open"
    /\ faults < MaxFaults
    /\ faults' = faults + 1
    /\ up' = [up EXCEPT ![p] = "error"]
    /\ result' = [result EXCEPT ![p] = "UpstreamError"]
    /\ sv' = [sv EXCEPT ![p] = FALSE]
    /\ IF sv[p]
       THEN /\ DoneCalled(p)
            /\ UNCHANGED <<pc, aborted, opened, pend>>
       ELSE /\ pc' = [pc EXCEPT ![p] = IF WriterQuiet(p) THEN "done" ELSE @]
            /\ UNCHANGED <<aborted, closing, opened, closeL, pend>>
    /\ UNCHANGED <<op, tarball, ttmp, taside, fd, written, existed, recv,
                   cancelled, distfile>>
    /\ UNCHANGED fetches

\* rstream2 'error': savestream.abort(), savestream = null, the error is
\* emitted to the caller
UpstreamError(p) ==
    /\ op[p] = "getTarball"
    /\ up[p] = "open"
    /\ faults < MaxFaults
    /\ faults' = faults + 1
    /\ up' = [up EXCEPT ![p] = "error"]
    /\ result' = [result EXCEPT ![p] = "UpstreamError"]
    /\ sv' = [sv EXCEPT ![p] = FALSE]
    /\ IF sv[p]
       THEN /\ AbortCalled(p)
            /\ UNCHANGED pc
       ELSE /\ pc' = [pc EXCEPT ![p] = IF WriterQuiet(p) THEN "done" ELSE @]
            /\ UNCHANGED <<aborted, closing, opened, closeL, pend>>
    /\ UNCHANGED <<op, tarball, ttmp, taside, fd, written, existed, recv,
                   cancelled, distfile>>
    /\ UNCHANGED fetches

\* variant of SaveStreamError in which the handler keeps the savestream
SaveStreamError_KeepsStream(p) ==
    /\ op[p] = "getTarball"
    /\ sv[p]
    /\ fd[p] = "open"
    /\ closing[p] = "no"
    /\ faults < MaxFaults
    /\ faults' = faults + 1
    /\ aborted' = [aborted EXCEPT ![p] = TRUE]
    /\ opened' = [opened EXCEPT ![p] = FALSE]
    /\ closeL' = [closeL EXCEPT ![p] = @ \cup {"remove"}]
    /\ on_open(p)
    /\ UNCHANGED <<pc, op, result, tarball, ttmp, taside, written, existed,
                   recv, cancelled, distfile, sv, fd, closing, pend>>

\* the staging stream of the savestream fails: writeTarball re-emits the
\* error, the savestream error handler calls abort() and clears savestream
\* (on_open has already run); the failed stream closes and the removal
\* registered by abort() is issued
SaveStreamError(p) ==
    /\ op[p] = "getTarball"
    /\ sv[p]
    /\ fd[p] = "open"
    /\ closing[p] = "no"
    /\ faults < MaxFaults
    /\ faults' = faults + 1
    /\ sv' = [sv EXCEPT ![p] = FALSE]
    /\ aborted' = [aborted EXCEPT ![p] = TRUE]
    /\ opened' = [opened EXCEPT ![p] = FALSE]
    /\ closing' = [closing EXCEPT ![p] = "end"]
    /\ closeL' = [closeL EXCEPT ![p] = @ \cup {"remove"}]
    /\ fd' = [fd EXCEPT ![p] = "closed"]
    /\ pend' = [pend EXCEPT ![p] = @ \cup {"unlink"}]
    /\ on_open(p)
    /\ UNCHANGED <<pc, op, result, tarball, ttmp, taside, written, existed,
                   recv, cancelled, distfile>>

\* the caller calls abort() on the stream getTarball returned: the method
\* is the empty function assigned at the start of getTarball
ReadAbort(p) ==
    /\ op[p] = "getTarball"
    /\ pc[p] # "done"
    /\ ~cancelled[p]
    /\ cancelled' = [cancelled EXCEPT ![p] = TRUE]
    /\ UNCHANGED <<pc, op, result, faults, tarball, ttmp, taside, fd, opened,
                   written, closing, closeL, pend, aborted, existed, up, recv,
                   sv, distfile>>
    /\ UNCHANGED fetches

TarballStep(p) ==
        \/ writeTarballNext(p) /\ UNCHANGED <<manVars, win32, facadeVars, reqVars, srvVars>>
        \/ writeTarball(p) /\ UNCHANGED <<manVars, win32, facadeVars, reqVars, srvVars>>
        \/ AccessCallback(p) /\ UNCHANGED <<manVars, win32, facadeVars, reqVars, srvVars>>
        \/ FileOpen(p) /\ UNCHANGED <<manVars, win32, facadeVars, reqVars, srvVars>>
        \/ UploadWrite(p) /\ UNCHANGED <<manVars, win32, facadeVars, reqVars, srvVars>>
        \/ StreamEnd(p) /\ UNCHANGED <<manVars, win32, facadeVars, reqVars, srvVars>>
        \/ SignalAbort(p) /\ UNCHANGED <<manVars, win32, facadeVars, reqVars, srvVars>>
        \/ StreamWriteError(p) /\ UNCHANGED <<manVars, win32, facadeVars, reqVars, srvVars>>
        \/ StreamDestroyClose(p) /\ UNCHANGED <<manVars, win32, facadeVars, reqVars, srvVars>>
        \/ UploadDone(p) /\ UNCHANGED <<manVars, win32, facadeVars, reqVars, srvVars>>
        \/ UploadAbort(p) /\ UNCHANGED <<manVars, win32, facadeVars, reqVars, srvVars>>
        \/ FileClose(p) /\ UNCHANGED <<manVars, win32, facadeVars, reqVars, srvVars>>
        \/ TarRename(p) /\ UNCHANGED <<manVars, win32, facadeVars, reqVars, srvVars>>
        \/ TarRenameIn(p) /\ UNCHANGED <<manVars, win32, facadeVars, reqVars, srvVars>>
        \/ TarUnlinkAside(p) /\ UNCHANGED <<manVars, win32, facadeVars, reqVars, srvVars>>
        \/ TarUnlink(p) /\ UNCHANGED <<manVars, win32, facadeVars, reqVars, srvVars>>
        \/ getTarball(p) /\ UNCHANGED <<manVars, win32, facadeVars, srvVars>>
        \/ LocalStream(p) /\ UNCHANGED <<manVars, win32, facadeVars, reqVars, srvVars>>
        \/ LocalStreamOpened(p) /\ UNCHANGED <<manVars, win32, facadeVars, reqVars, srvVars>>
        \/ MetadataCallback(p) /\ UNCHANGED <<manVars, win32, facadeVars, reqVars>>
        \/ SyncCallback(p) /\ UNCHANGED <<manVars, win32, facadeVars, reqVars>>
        \/ UpstreamData(p) /\ UNCHANGED <<manVars, win32, facadeVars, reqVars, srvVars>>
        \/ UpstreamEnd(p) /\ UNCHANGED <<manVars, win32, facadeVars, reqVars, srvVars>>
        \/ UpstreamError(p) /\ UNCHANGED <<manVars, win32, facadeVars, reqVars, srvVars>>
        \/ SaveStreamError(p) /\ UNCHANGED <<manVars, win32, facadeVars, reqVars, srvVars>>
        \/ ReadAbort(p) /\ UNCHANGED <<manVars, win32, facadeVars, reqVars, srvVars>>
        \/ getTarballNext(p) /\ UNCHANGED <<manVars, win32, facadeVars, srvVars>>
        \/ LocalPipeline(p) /\ UNCHANGED <<manVars, win32, facadeVars, srvVars>>
        \/ PipelineOpened(p) /\ UNCHANGED <<manVars, win32, facadeVars, srvVars>>
        \/ fetchTarllballFromUpstream(p) /\ UNCHANGED <<manVars, win32, facadeVars, srvVars>>

InitTarball ==
    /\ InitTasks
    /\ tarball \in {TAbsent, TFile(0, TotalChunks)}
    /\ distfile \in BOOLEAN
    /\ dirExists = TRUE
    /\ pkgJson = Json({})
    /\ pkgJson0 = pkgJson
    /\ localManifest = NoManifest
    /\ localManifest0 = NoManifest
    /\ MergeIdle
    /\ PipeIdle
    /\ DbIdle

NextTarball ==
    \E p \in Procs : TarballStep(p)

SpecTarball == InitTarball /\ [][NextTarball]_vars

-----------------------------------------------------------------------------
(* The merge engine of the storage facade (_syncUplinksMetadata) and the    *)
(* facade calls that run it.  One facade call at a time; every uplink of    *)
(* the fan-out answers on its own, in any order.                            *)

generatePackageTemplate == Manifest({}, {}, <<>>)

\* error codes an uplink request fails with
UplinkErrors == {"ETIMEDOUT", "ESOCKETTIMEDOUT", "ECONNRESET", "E404"}

IsTimeoutError_NoReset(code) == code \in {"ETIMEDOUT", "ESOCKETTIMEDOUT"}

\* the completion callback's test for a connection timeout or reset
IsTimeoutError(code) == code \in {"ETIMEDOUT", "ESOCKETTIMEDOUT", "ECONNRESET"}

\* manifests uplink u may answer with; a registry is not obliged to keep
\* its dist-tags within its versions
RemoteManifests(u) ==
    {Manifest({RemoteVersion(u), SharedRecord(u)},
              {<<"latest", RemoteVersion(u)>>}, <<>>),
     Manifest({RemoteVersion(u), SharedRecord(u)},
              {<<"latest", RemoteVersion(u)>>, <<"beta", LocalVersion>>}, <<>>)}

\* packageInfo._uplinks[u] = { etag, fetched: Date.now() }
Stamp(rec, u) ==
    [x \in (DOMAIN rec) \cup {u} |-> IF x = u THEN 0 ELSE rec[x]]

\* pkgUtils.mergeVersions: remote versions are added, a local key wins; a
\* remote dist-tag is adopted when the local manifest has no such tag
mergeVersions(local, remote) ==
    [local EXCEPT
        !.versions = local.versions \cup
                     {r \in remote.versions :
                         \A l \in local.versions : Key(l) # Key(r)},
        !.distTags = local.distTags \cup
                     {a \in remote.distTags :
                         \A b \in local.distTags : b[1] # a[1]}]

\* drops every dist-tag whose target is not a version of the manifest
normalizeDistTags(m) ==
    [m EXCEPT !.distTags = {a \in m.distTags : a[2] \in m.versions}]

\* the freshness test of the iteratee: a record exists, has a fetch time,
\* and that time is less than maxage ago
IsFresh_Inclusive(info, u) ==
    /\ u \in DOMAIN info.uplinks
    /\ info.uplinks[u] <= Maxage

IsFresh(info, u) ==
    /\ u \in DOMAIN info.uplinks
    /\ info.uplinks[u] < Maxage

\* the non-empty entries of the error list handed to the callback
ErrorList == {<<u, upLinksErrors[u]>> : u \in {x \in upLinks : upLinksErrors[x] # "none"}}

Return(err, body, errors) ==
    /\ mpc' = "done"
    /\ mresult' = [err |-> err, body |-> body, errors |-> errors]

\* getPackageSynUpLinksCallback of getPackage
getPackageSynUpLinksCallback(err, res, errors) ==
    IF err # "none"
    THEN Return(err, NoManifest, {})
    ELSE Return("none", normalizeDistTags(res), errors)

\* getVersion(versions, queryVersion): the version stored under that key
getVersion(versions, queryVersion) ==
    IF queryVersion \in versions THEN {queryVersion} ELSE {}

getPackageByVersion_KeysOnly(convertedManifest) ==
    LET version == getVersion(convertedManifest.versions, options.version)
    IN  IF version # {}
        THEN Return("none", [version |-> CHOOSE v \in version : TRUE], {})
        ELSE Return("VersionNotExist", NoManifest, {})

\* getPackageByVersion once getPackageNext has resolved with the manifest
getPackageByVersion(convertedManifest) ==
    LET version == getVersion(convertedManifest.versions, options.version)
        matched == {a[2] : a \in {b \in convertedManifest.distTags :
                                      b[1] = options.version}}
        disTagVersion ==
            UNION {getVersion(convertedManifest.versions, t) : t \in matched}
    IN  IF version # {}
        THEN Return("none", [version |-> CHOOSE v \in version : TRUE], {})
        ELSE IF disTagVersion # {}
             THEN Return("none",
                         [version |-> CHOOSE v \in disTagVersion : TRUE], {})
             ELSE Return("VersionNotExist", NoManifest, {})

\* getPackageByOptions once getPackageNext has resolved with the manifest
getPackageByOptions_resolved(manifest) ==
    IF options.version # NoVersion
    THEN getPackageByVersion(manifest)
    ELSE Return("none", manifest, {})

\* getPackageNext from the point where syncUplinksMetadataNext settled
getPackageNext_synced(err, remoteManifest, errors) ==
    IF err # "none"
    THEN Return(err, NoManifest, {})
    ELSE IF remoteManifest = NoManifest /\ data = NoManifest
         THEN Return("NotFound", NoManifest, {})
         ELSE IF remoteManifest = NoManifest
              THEN getPackageByOptions_resolved(data)
              ELSE getPackageByOptions_resolved(normalizeDistTags(remoteManifest))

AddOps == {"addPackage", "addPackageNext"}

LegacyOps == {"getPackage"} \cup AddOps

\* the failing check's error goes to the caller of addPackage
Reject(err) == Return(err, NoManifest, {})

\* checkPackageRemote settles: an uplink that returned the package, or an
\* uplink error that is neither a 404 nor timeout-class, is a conflict; a
\* timed out check passes only when publishing offline is allowed
checkPackageRemote_synced(err, res, errors) ==
    IF res # NoManifest
    THEN Reject("Conflict")
    ELSE IF \E e \in errors : ~IsTimeoutError(e[2]) /\ e[2] # "E404"
         THEN Reject("Conflict")
         ELSE IF \E e \in errors : IsTimeoutError(e[2])
              THEN \E isAllowPublishOffline \in BOOLEAN :
                      IF isAllowPublishOffline /\ \A e \in errors : IsTimeoutError(e[2])
                      THEN mpc' = "publish" /\ UNCHANGED mresult
                      ELSE Reject("ServiceUnavailable")
              ELSE IF err \in {"none", "NotFound"}
                   THEN mpc' = "publish" /\ UNCHANGED mresult
                   ELSE Reject(err)

\* the continuation of the facade call once the merge has settled
Callback(err, res, errors) ==
    CASE mop = "getPackage" -> getPackageSynUpLinksCallback(err, res, errors)
      [] mop \in AddOps -> checkPackageRemote_synced(err, res, errors)
      [] OTHER -> getPackageNext_synced(err, res, errors)

\* variant of syncUplinksMetadata that selects the uplinks whatever
\* options.uplinksLook says
syncUplinksMetadata_AlwaysLook(info, look) ==
    /\ found' = (info # NoManifest)
    /\ packageInfo' = IF info = NoManifest THEN generatePackageTemplate ELSE info
    /\ \E proxied \in SUBSET Uplinks : upLinks' = proxied
    /\ ustate' = [u \in Uplinks |-> "wait"]
    /\ upLinksErrors' = [u \in Uplinks |-> "none"]
    /\ remoteCalls' = [u \in Uplinks |-> 0]
    /\ mpc' = "fanout"

\* _syncUplinksMetadata(name, info, {uplinksLook: look}, callback) up to the
\* start of the fan-out; `proxied` are the uplinks with proxy access
syncUplinksMetadata(info, look) ==
    /\ found' = (info # NoManifest)
    /\ packageInfo' = IF info = NoManifest THEN generatePackageTemplate ELSE info
    /\ \E proxied \in SUBSET Uplinks :
          upLinks' = IF look THEN proxied ELSE {}
    /\ ustate' = [u \in Uplinks |-> "wait"]
    /\ upLinksErrors' = [u \in Uplinks |-> "none"]
    /\ remoteCalls' = [u \in Uplinks |-> 0]
    /\ mpc' = "fanout"

\* the iteratee of async.map for uplink u, up to its request
Iteratee(u) ==
    /\ mpc = "fanout" /\ u \in upLinks /\ ustate[u] = "wait"
    /\ IF IsFresh(packageInfo, u)
       THEN /\ ustate' = [ustate EXCEPT ![u] = "done"]
            /\ UNCHANGED remoteCalls
       ELSE /\ ustate' = [ustate EXCEPT ![u] = "called"]
            /\ remoteCalls' = [remoteCalls EXCEPT ![u] = @ + 1]
    /\ UNCHANGED <<localManifest, localManifest0, mop, mpc, options, data,
                   found, upLinks, packageInfo, upLinksErrors, steps, mresult>>

\* getRemoteMetadata answers 304 to the etag of the record
NotModified(u) ==
    /\ mpc = "fanout" /\ ustate[u] = "called"
    /\ u \in DOMAIN packageInfo.uplinks
    /\ packageInfo' = [packageInfo EXCEPT !.uplinks = Stamp(@, u)]
    /\ upLinksErrors' = [upLinksErrors EXCEPT ![u] = "E304"]
    /\ ustate' = [ustate EXCEPT ![u] = "done"]
    /\ UNCHANGED <<localManifest, localManifest0, mop, mpc, options, data,
                   found, upLinks, remoteCalls, steps, mresult>>

RemoteError_ClearsFound(u) ==
    /\ mpc = "fanout" /\ ustate[u] = "called"
    /\ \E e \in UplinkErrors :
          upLinksErrors' = [upLinksErrors EXCEPT ![u] = e]
    /\ ustate' = [ustate EXCEPT ![u] = "done"]
    /\ found' = FALSE
    /\ UNCHANGED <<localManifest, localManifest0, mop, mpc, options, data,
                   upLinks, packageInfo, remoteCalls, steps, mresult>>

\* getRemoteMetadata fails or yields no manifest
RemoteError(u) ==
    /\ mpc = "fanout" /\ ustate[u] = "called"
    /\ \E e \in UplinkErrors :
          upLinksErrors' = [upLinksErrors EXCEPT ![u] = e]
    /\ ustate' = [ustate EXCEPT ![u] = "done"]
    /\ UNCHANGED <<localManifest, localManifest0, mop, mpc, options, data,
                   found, upLinks, packageInfo, remoteCalls, steps, mresult>>

\* variant of InvalidResponse that validates after the freshness record of
\* the uplink has been written
InvalidResponse_AfterStamp(u) ==
    /\ mpc = "fanout" /\ ustate[u] = "called"
    /\ packageInfo' = [packageInfo EXCEPT !.uplinks = Stamp(@, u)]
    /\ upLinksErrors' = [upLinksErrors EXCEPT ![u] = "EVALIDATION"]
    /\ ustate' = [ustate EXCEPT ![u] = "done"]
    /\ UNCHANGED <<localManifest, localManifest0, mop, mpc, options, data,
                   found, upLinks, remoteCalls, steps, mresult>>

\* getRemoteMetadata answers with a manifest that validateMetadata rejects:
\* the iteratee calls back with the error before it touches packageInfo
InvalidResponse(u) ==
    /\ mpc = "fanout" /\ ustate[u] = "called"
    /\ upLinksErrors' = [upLinksErrors EXCEPT ![u] = "EVALIDATION"]
    /\ ustate' = [ustate EXCEPT ![u] = "done"]
    /\ UNCHANGED <<localManifest, localManifest0, mop, mpc, options, data,
                   found, upLinks, packageInfo, remoteCalls, steps, mresult>>

\* getRemoteMetadata answers with a valid manifest and pkgUtils.mergeVersions
\* throws: the freshness record of the uplink has been written before the
\* merge is tried, the iteratee calls back with the error
MergeVersionsError(u) ==
    /\ mpc = "fanout" /\ ustate[u] = "called"
    /\ packageInfo' = [packageInfo EXCEPT !.uplinks = Stamp(@, u)]
    /\ upLinksErrors' = [upLinksErrors EXCEPT ![u] = "EMERGE"]
    /\ ustate' = [ustate EXCEPT ![u] = "done"]
    /\ UNCHANGED <<localManifest, localManifest0, mop, mpc, options, data,
                   found, upLinks, remoteCalls, steps, mresult>>

\* getRemoteMetadata answers with a valid manifest
RemoteManifest(u) ==
    /\ mpc = "fanout" /\ ustate[u] = "called"
    /\ \E r \in RemoteManifests(u) :
          packageInfo' =
              mergeVersions([packageInfo EXCEPT !.uplinks = Stamp(@, u)], r)
    /\ found' = TRUE
    /\ ustate' = [ustate EXCEPT ![u] = "done"]
    /\ UNCHANGED <<localManifest, localManifest0, mop, mpc, options, data,
                   upLinks, upLinksErrors, remoteCalls, steps, mresult>>

\* the completion callback of async.map
FanoutDone ==
    /\ mpc = "fanout" /\ mop \in LegacyOps
    /\ \A u \in upLinks : ustate[u] = "done"
    /\ IF ~found
       THEN IF \E u \in upLinks : IsTimeoutError(upLinksErrors[u])
            THEN Callback("ServiceUnavailable", NoManifest, ErrorList)
            ELSE Callback("NotFound", NoManifest, ErrorList)
       ELSE IF upLinks = {}
            THEN Callback("none", packageInfo, {})
            ELSE /\ mpc' = "updateVersions"
                 /\ UNCHANGED mresult
    /\ UNCHANGED <<localManifest, localManifest0, mop, options, data, found,
                   upLinks, packageInfo, ustate, upLinksErrors, remoteCalls,
                   steps>>

\* localStorage.updateVersions(name, info, cb): the merged manifest becomes
\* the package's manifest in local storage, created if there was none
updateVersions(info) ==
    /\ localManifest' = info
    /\ steps' = Append(steps, "updateVersions")

\* Number of registered filters.
NumFilters == 2

Filters == 1..NumFilters

\* filter_metadata of filter i: it returns the manifest without the
\* dist-tags that point to the version served by uplink i
Filter(i, m) == [m EXCEPT !.distTags = {a \in @ : a[2] # VersionNames[i]}]

FilterErrors == <<"EFILTER (1)", "EFILTER (2)", "EFILTER (3)">>

\* the entry of filterErrors for filter i
FilterError(i) == <<0, FilterErrors[i]>>

\* variant of RunFilters in which the first filter that throws ends the loop
RECURSIVE RunFilters_StopOnThrow(_, _, _)
RunFilters_StopOnThrow(i, m, throws) ==
    IF i > NumFilters \/ i \in throws
    THEN [body |-> m,
          log |-> IF i > NumFilters THEN <<>>
                  ELSE <<[filter |-> i, input |-> m, threw |-> TRUE]>>]
    ELSE LET rest == RunFilters_StopOnThrow(i + 1, Filter(i, m), throws)
         IN  [body |-> rest.body,
              log |-> <<[filter |-> i, input |-> m, threw |-> FALSE]>> \o rest.log]

\* the loop over self.filters from filter i on: each filter gets
\* packageJsonLocal and its result replaces it, unless it throws (throws is
\* the set of filters that do)
RECURSIVE RunFilters(_, _, _)
RunFilters(i, m, throws) ==
    IF i > NumFilters
    THEN [body |-> m, log |-> <<>>]
    ELSE LET out == IF i \in throws THEN m ELSE Filter(i, m)
             rest == RunFilters(i + 1, out, throws)
         IN  [body |-> rest.body,
              log |-> <<[filter |-> i, input |-> m, threw |-> i \in throws]>>
                      \o rest.log]

\* updateVersions calls back; the filters then run, their errors joining
\* the list
updateVersionsCallback ==
    /\ mpc = "updateVersions"
    /\ \/ /\ faults < MaxFaults
          /\ faults' = faults + 1
          /\ Callback("EIO", NoManifest, {})
          /\ UNCHANGED <<localManifest, steps, filterLog>>
       \/ /\ updateVersions(packageInfo)
          /\ \E throws \in SUBSET Filters :
                LET run == RunFilters(1, packageInfo, throws)
                    filterErrors == {FilterError(i) : i \in throws}
                IN  /\ filterLog' = run.log
                    /\ Callback("none", run.body, ErrorList \cup filterErrors)
          /\ UNCHANGED faults
    /\ UNCHANGED <<localManifest0, mop, options, data, found, upLinks,
                   packageInfo, ustate, upLinksErrors, remoteCalls>>

\* getPackage(options): localStorage.getPackageMetadata is called
getPackage ==
    /\ mpc = "idle"
    /\ mop' = "getPackage"
    /\ mpc' = "read"
    /\ \E look \in BOOLEAN : options' = [options EXCEPT !.uplinksLook = look]
    /\ UNCHANGED <<localManifest, localManifest0, data, found, upLinks,
                   packageInfo, ustate, upLinksErrors, remoteCalls, steps,
                   mresult>>

\* its callback: an internal error is reported right away, otherwise the
\* merge starts with the manifest read (none when the package is unknown)
getPackageMetadataCallback ==
    /\ mop = "getPackage" /\ mpc = "read"
    /\ \/ /\ faults < MaxFaults
          /\ faults' = faults + 1
          /\ Return("EIO", NoManifest, {})
          /\ UNCHANGED <<data, found, upLinks, packageInfo, ustate,
                         upLinksErrors, remoteCalls>>
       \/ /\ data' = localManifest
          /\ syncUplinksMetadata(localManifest, options.uplinksLook)
          /\ UNCHANGED <<faults, mresult>>
    /\ UNCHANGED <<localManifest, localManifest0, mop, options, steps>>

\* syncUplinksMetadataNext once every selected uplink has answered: no
\* manifest when the uplinks produced none (ServiceUnavailable when there
\* is no local manifest either and every failure is timeout-class),
\* otherwise the merged manifest, stored first
syncUplinksMetadataNext ==
    /\ mpc = "fanout" /\ mop = "getPackageByOptions"
    /\ \A u \in upLinks : ustate[u] = "done"
    /\ IF \A u \in upLinks : upLinksErrors[u] # "none" \/ remoteCalls[u] = 0
       THEN IF /\ data = NoManifest /\ upLinks # {}
               /\ \A u \in upLinks : IsTimeoutError(upLinksErrors[u])
            THEN Callback("ServiceUnavailable", NoManifest, ErrorList)
            ELSE Callback("none", NoManifest, ErrorList)
       ELSE /\ mpc' = "updateVersions"
            /\ UNCHANGED mresult
    /\ UNCHANGED <<localManifest, localManifest0, mop, options, data, found,
                   upLinks, packageInfo, ustate, upLinksErrors, remoteCalls,
                   steps>>

\* getPackageByOptions(options): getPackageNext asks local storage
getPackageByOptions ==
    /\ mpc = "idle"
    /\ mop' = "getPackageByOptions"
    /\ mpc' = "read"
    /\ \E look \in BOOLEAN : \E v \in Queries :
          options' = [uplinksLook |-> look, version |-> v]
    /\ UNCHANGED <<localManifest, localManifest0, data, found, upLinks,
                   packageInfo, ustate, upLinksErrors, remoteCalls, steps,
                   mresult>>

\* getPackageLocalMetadata settles: an internal error is thrown on, a
\* missing package leaves `data` undefined; then the uplinks are synced
getPackageNext ==
    /\ mop = "getPackageByOptions" /\ mpc = "read"
    /\ \/ /\ faults < MaxFaults
          /\ faults' = faults + 1
          /\ Return("EIO", NoManifest, {})
          /\ UNCHANGED <<data, found, upLinks, packageInfo, ustate,
                         upLinksErrors, remoteCalls>>
       \/ /\ data' = localManifest
          /\ syncUplinksMetadata(localManifest, options.uplinksLook)
          /\ UNCHANGED <<faults, mresult>>
    /\ UNCHANGED <<localManifest, localManifest0, mop, options, steps>>

\* addPackage(name, metadata, callback)
addPackage ==
    /\ mpc = "idle"
    /\ mop' = "addPackage"
    /\ mpc' = "checkLocal"
    /\ UNCHANGED <<localManifest, localManifest0, options, data, found,
                   upLinks, packageInfo, ustate, upLinksErrors, remoteCalls,
                   steps, mresult>>

\* addPackageNext(name, metadata)
addPackageNext ==
    /\ mpc = "idle"
    /\ mop' = "addPackageNext"
    /\ mpc' = "checkLocal"
    /\ UNCHANGED <<localManifest, localManifest0, options, data, found,
                   upLinks, packageInfo, ustate, upLinksErrors, remoteCalls,
                   steps, mresult>>

\* await checkPackageLocal: a package found in local storage is a conflict,
\* a storage failure is thrown on; otherwise checkPackageRemote starts the
\* merge with no local manifest
checkPackageLocal ==
    /\ mop \in AddOps /\ mpc = "checkLocal"
    /\ steps' = Append(steps, "checkPackageLocal")
    /\ \/ /\ faults < MaxFaults
          /\ faults' = faults + 1
          /\ Reject("EIO")
       \/ /\ localManifest # NoManifest
          /\ Reject("Conflict")
          /\ UNCHANGED faults
       \/ /\ localManifest = NoManifest
          /\ mpc' = "checkRemote"
          /\ UNCHANGED <<faults, mresult>>
    /\ UNCHANGED <<localManifest, localManifest0, mop, options, data, found,
                   upLinks, packageInfo, ustate, upLinksErrors, remoteCalls>>

\* await checkPackageRemote(name, isAllowPublishOffline, _syncUplinksMetadata)
checkPackageRemote ==
    /\ mop \in AddOps /\ mpc = "checkRemote"
    /\ steps' = Append(steps, "checkPackageRemote")
    /\ syncUplinksMetadata(NoManifest, TRUE)
    /\ UNCHANGED <<localManifest, localManifest0, mop, options, data, mresult>>

\* await publishPackage(name, metadata, localStorage): the package is created
publishPackage ==
    /\ mop \in AddOps /\ mpc = "publish"
    /\ steps' = Append(steps, "publishPackage")
    /\ \/ /\ faults < MaxFaults
          /\ faults' = faults + 1
          /\ Reject("EIO")
          /\ UNCHANGED localManifest
       \/ /\ localManifest' =
                 Manifest({LocalVersion}, {<<"latest", LocalVersion>>}, <<>>)
          /\ Return("none", localManifest', {})
          /\ UNCHANGED faults
    /\ UNCHANGED <<localManifest0, mop, options, data, found, upLinks,
                   packageInfo, ustate, upLinksErrors, remoteCalls>>

mergeOther == <<pkgJson0, win32, dirExists, pkgJson, tmpFile, displaced,
                lockHolder, pc, op, wr, rd, locked, result, origErr,
                unlockErr, bg, tarVars, dbVars, pipeVars>>

MergeStep(u) ==
        \/ getPackage /\ UNCHANGED <<mergeOther, filterLog, faults>>
        \/ getPackageMetadataCallback /\ UNCHANGED <<mergeOther, filterLog>>
        \/ Iteratee(u) /\ UNCHANGED <<mergeOther, filterLog, faults>>
        \/ NotModified(u) /\ UNCHANGED <<mergeOther, filterLog, faults>>
        \/ RemoteError(u) /\ UNCHANGED <<mergeOther, filterLog, faults>>
        \/ InvalidResponse(u) /\ UNCHANGED <<mergeOther, filterLog, faults>>
        \/ MergeVersionsError(u) /\ UNCHANGED <<mergeOther, filterLog, faults>>
        \/ RemoteManifest(u) /\ UNCHANGED <<mergeOther, filterLog, faults>>
        \/ FanoutDone /\ UNCHANGED <<mergeOther, filterLog, faults>>
        \/ updateVersionsCallback /\ UNCHANGED mergeOther
        \/ getPackageByOptions /\ UNCHANGED <<mergeOther, filterLog, faults>>
        \/ getPackageNext /\ UNCHANGED <<mergeOther, filterLog>>
        \/ syncUplinksMetadataNext /\ UNCHANGED <<mergeOther, filterLog, faults>>
        \/ addPackage /\ UNCHANGED <<mergeOther, filterLog, faults>>
        \/ addPackageNext /\ UNCHANGED <<mergeOther, filterLog, faults>>
        \/ checkPackageLocal /\ UNCHANGED <<mergeOther, filterLog>>
        \/ checkPackageRemote /\ UNCHANGED <<mergeOther, filterLog, faults>>
        \/ publishPackage /\ UNCHANGED <<mergeOther, filterLog>>

InitMerge ==
    /\ InitTasks
    /\ win32 = FALSE
    /\ tarball = TAbsent
    /\ distfile = FALSE
    /\ dirExists = TRUE
    /\ pkgJson = Absent
    /\ pkgJson0 = pkgJson
    /\ localManifest \in {NoManifest} \cup {m \in StoredManifests : LatestValid(m)}
    /\ localManifest0 = localManifest
    /\ MergeIdle
    /\ PipeIdle
    /\ DbIdle

NextMerge == \E u \in Uplinks : MergeStep(u)

SpecMerge == InitMerge /\ [][NextMerge]_vars

-----------------------------------------------------------------------------
(* Properties of the manifest operations.                                   *)

CreateOps == {"createPackageNext", "createPackage"}

UpdateOps == {"updatePackageNext", "updatePackage"}

WritePcs == {"w_tmp", "w_mkdir", "w_rename", "w_unlink_src", "w_unlink_aside",
             "w_rename2"}

\* the updatePackage / updatePackageNext call of task p has returned, thrown
\* or called onEnd (the caller of updatePackageNext may still be writing)
UpdateFinished(p) ==
    /\ op[p] \in UpdateOps
    /\ \/ pc[p] = "done"
       \/ op[p] = "updatePackageNext" /\ pc[p] \in WritePcs

\* C1: of any number of concurrent createPackage calls on one package name
\* that does not exist yet, whether or not the package directory exists,
\* exactly one succeeds and all the others fail with a conflict.
\* (Stated for runs without an injected I/O failure, on the non-win32 path.)
C1_ExclusiveCreate ==
    (/\ ~win32
     /\ faults = 0
     /\ pkgJson0 = Absent
     /\ \A p \in Procs : op[p] \in CreateOps /\ pc[p] = "done")
    => /\ Cardinality({p \in Procs : result[p] = "ok"}) = 1
       /\ \A p \in Procs : result[p] \in {"ok", fileExist}

\* C2: of two concurrent writeTarball calls on one (package, filename) whose
\* tarball does not exist when either call is made, exactly one succeeds and
\* the other fails with the conflict error.  (Stated for runs in which no
\* call is aborted and nothing fails, on the non-win32 rename path.)
C2_ExclusiveTarball ==
    (/\ ~win32
     /\ faults = 0
     /\ \A p \in Procs : /\ op[p] = "writeTarball"
                         /\ pc[p] = "done"
                         /\ ~existed[p]
                         /\ ~aborted[p])
    => /\ Cardinality({p \in Procs : result[p] = "success"}) = 1
       /\ \A p \in Procs : result[p] \in {"success", fileExist}

\* C3: two concurrent updatePackage calls are serialized by the lock and the
\* second builds on the manifest the first wrote, so that after both have
\* succeeded the manifest holds both updates.  (Stated for runs without an
\* injected failure, on the non-win32 rename path.)
C3_NoLostUpdate ==
    (/\ ~win32
     /\ faults = 0
     /\ \A p \in Procs : /\ op[p] \in UpdateOps
                         /\ pc[p] = "done"
                         /\ result[p] = "ok")
    => pkgJson = Json(Procs)

\* C4: when package.json held a complete manifest before the tasks started
\* and the tasks only write manifests (updatePackage, savePackage) and read
\* them, every readPackage returns a complete manifest: it never fails to
\* parse and never finds the file missing.
C4_AtomicManifest ==
    (/\ pkgJson0.kind = "json"
     /\ \A q \in Procs : op[q] \notin CreateOps)
    => \A p \in Procs :
          (op[p] = "readPackageNext" /\ pc[p] = "done") => result[p] = "ok"

\* C5: in every reachable state package.json is absent or a complete
\* manifest, and no readPackage ever fails to parse it.
C5_AbsentOrComplete ==
    /\ pkgJson.kind \in {"absent", "json"}
    /\ \A p \in Procs :
         (op[p] = "readPackageNext" /\ pc[p] = "done")
            => result[p] # "SyntaxError"

\* C6: once an updatePackage call that took the lock and read the manifest
\* has finished, with success or with an error or exception of the transform
\* or of the write, it no longer holds the manifest lock.  (Calls whose
\* unlock itself failed are left out.)
C6_LockReleased ==
    \A p \in Procs :
        (UpdateFinished(p) /\ locked[p] /\ ~unlockErr[p]) => lockHolder # p

\* C7: when the transform or the write fails while updatePackage holds the
\* lock, the lock is released and the caller receives that original error,
\* unless the unlock itself failed.
C7_OriginalError ==
    \A p \in Procs :
        (/\ op[p] \in UpdateOps
         /\ pc[p] = "done"
         /\ locked[p]
         /\ origErr[p] \in {"HandlerError", "EIO", "EPERM"}
         /\ ~unlockErr[p])
        => /\ result[p] = origErr[p]
           /\ lockHolder # p

\* the only task that has started is p
Alone(p) == \A q \in Procs \ {p} : pc[q] = "idle"

\* C8: after a tarball write that was cancelled before its end (abort signal
\* of writeTarballNext, abort() of writeTarball with done() never called) has
\* come to rest, the storage holds neither a <filename> written by it nor
\* its staging file.
C8_CancelCleansUp ==
    \A p \in Procs :
        (/\ op[p] \in UploadOps
         /\ aborted[p]
         /\ "rename" \in closeL[p] => op[p] = "writeTarballNext"
         /\ pc[p] = "done"
         /\ Alone(p))
        => /\ ~ttmp[p]
           /\ tarball.by # p

\* C9: a tarball write on a (package, filename) whose tarball exists ends
\* with the conflict error and leaves the existing tarball as it was.
C9_NoOverwrite ==
    \A p \in Procs :
        (/\ op[p] \in UploadOps
         /\ existed[p]
         /\ pc[p] = "done"
         /\ Alone(p))
        => /\ result[p] = fileExist
           /\ tarball = TFile(0, TotalChunks)

\* the cache writer of a getTarball request holds its staging stream
CacheWriteInFlight(p) ==
    op[p] = "getTarball" /\ fd[p] \in {"opening", "open"}

\* C10: at any time at most one getTarball request has a cache write in
\* flight for the (name, filename).
C10_OneCacheWrite ==
    Cardinality({p \in Procs : CacheWriteInFlight(p)}) <= 1

\* C11: once the caller has cancelled a getTarball request, no further
\* upstream chunk is consumed for it and its cache writer does not commit
\* <filename>.
C11_CancelPropagates ==
    [][\A p \in Procs :
          cancelled[p] =>
              /\ (up[p] = "open" => recv'[p] = recv[p])
              /\ (tarball' # tarball => tarball'.by # p)]_vars

\* getTarball of task p ended successfully through the uplink with its cache
\* writer opened and never aborted, and no other request ran
CachedFetchDone(p) ==
    /\ op[p] = "getTarball"
    /\ pc[p] = "done"
    /\ result[p] = "ok"
    /\ up[p] = "ended"
    /\ fd[p] = "closed"
    /\ ~aborted[p]
    /\ Alone(p)

Stale(u) ==
    \/ data = NoManifest
    \/ u \notin DOMAIN data.uplinks
    \/ data.uplinks[u] >= Maxage

MergeStarted == mpc \in {"fanout", "updateVersions", "done"}

\* C13: within one merge call, getRemoteMetadata is invoked for a selected
\* uplink exactly when its recorded fetch time is absent or at least maxage
\* old; a fresh uplink gets no call, whatever the other uplinks' records say.
C13_FreshnessGate ==
    \A u \in Uplinks :
        MergeStarted =>
            /\ remoteCalls[u] <= 1
            /\ (u \notin upLinks \/ ustate[u] = "wait") => remoteCalls[u] = 0
            /\ (u \in upLinks /\ ustate[u] # "wait") =>
                   (remoteCalls[u] = 1 <=> Stale(u))

C13_Witness ==
    /\ mpc = "done" /\ upLinks = Uplinks
    /\ ~Stale(1) /\ remoteCalls[1] = 0
    /\ NumUplinks \in DOMAIN data.uplinks
    /\ data.uplinks[NumUplinks] = Maxage /\ remoteCalls[NumUplinks] = 1
    /\ mresult.err = "none"

\* the merge ran to its completion callback and the facade call hands its
\* outcome to the caller as it is
MergeReturned == mop = "getPackage" /\ mpc = "done" /\ packageInfo # NoManifest

TimeoutClass == {"ETIMEDOUT", "ESOCKETTIMEDOUT", "ECONNRESET"}

\* every selected uplink failed, each with a timeout-class error
AllTimedOut ==
    /\ upLinks # {}
    /\ \A u \in upLinks : upLinksErrors[u] \in TimeoutClass

\* C14: when the package is absent locally and every selected uplink fails
\* with a timeout-class error (ETIMEDOUT, ESOCKETTIMEDOUT, ECONNRESET), the
\* merge fails with ServiceUnavailable, not NotFound.
C14_TimeoutEscalation ==
    (MergeReturned /\ data = NoManifest /\ AllTimedOut) =>
        mresult.err = "ServiceUnavailable"

C14_Witness ==
    /\ MergeReturned /\ data = NoManifest /\ AllTimedOut
    /\ upLinks = Uplinks
    /\ \A u \in upLinks : upLinksErrors[u] = "ECONNRESET"
    /\ mresult.err = "ServiceUnavailable"

\* C15: with no local manifest, the merge fails with ServiceUnavailable only
\* if all uplink failures are timeout-class; when no uplink yields a manifest
\* and at least one failed with another error (a 404, say), it fails with
\* NotFound.
C15_NotFoundOnOtherError ==
    (MergeReturned /\ data = NoManifest /\ ~found) =>
        /\ (mresult.err = "ServiceUnavailable" => AllTimedOut)
        /\ ((\E u \in upLinks : upLinksErrors[u] \notin TimeoutClass) =>
                mresult.err = "NotFound")

\* the uplinks whose manifest the merge took in
Succeeded == {u \in upLinks : remoteCalls[u] = 1 /\ ustate[u] = "done"
                              /\ upLinksErrors[u] = "none"}

\* C16: when a local manifest exists, uplink failures never make the merge
\* fail: it returns the local manifest merged with whatever uplinks
\* succeeded, together with the per-uplink error list.
C16_LocalSurvivesUplinkErrors ==
    (MergeReturned /\ data # NoManifest /\ faults = 0) =>
        /\ mresult.err = "none"
        /\ {Key(v) : v \in mresult.body.versions} =
               data.versions \cup
               UNION {{RemoteVersion(u), Key(SharedRecord(u))} : u \in Succeeded}
        /\ mresult.body.versions \subseteq
               data.versions \cup
               UNION {{RemoteVersion(u), SharedRecord(u)} : u \in Succeeded}
        /\ \A a \in data.distTags :
               a[2] \in mresult.body.versions => a \in mresult.body.distTags
        /\ upLinks # {} =>
               {e \in mresult.errors : e[1] \in Uplinks} = ErrorList

C16_Witness ==
    /\ MergeReturned /\ data # NoManifest /\ faults = 0
    /\ upLinks = Uplinks
    /\ upLinksErrors[1] = "E404"
    /\ upLinksErrors[NumUplinks] = "ETIMEDOUT"
    /\ mresult.err = "none"
    /\ mresult.body.versions = data.versions
    /\ <<1, "E404">> \in mresult.errors

\* the facade call has returned a whole manifest to its caller
ManifestReturned ==
    /\ mpc = "done" /\ mresult.err = "none"
    /\ mop \in {"getPackage", "getPackageByOptions"}
    /\ options.version = NoVersion

\* C17: in every manifest M returned by getPackageNext / getPackageByOptions,
\* on every path (the one where no uplink produced a manifest and the local
\* manifest is returned included), every dist-tags value is a key of
\* M.versions.
C17_DistTagsConsistent ==
    ManifestReturned =>
        \A a \in mresult.body.distTags : a[2] \in mresult.body.versions

\* getPackageByOptions has settled without a storage failure
OptionsSettled == mop = "getPackageByOptions" /\ mpc = "done" /\ faults = 0

\* local storage or some uplink yielded the package
PackageYielded == data # NoManifest \/ Succeeded # {}

\* the manifest the uplink sync hands back: packageInfo after the filters
SyncedManifest ==
    IF filterLog = <<>>
    THEN packageInfo
    ELSE LET last == filterLog[Len(filterLog)]
         IN  IF last.threw THEN last.input ELSE Filter(last.filter, last.input)

\* the target of dist-tag t in the merged manifest, when it is a version key
TagTargets(t) ==
    {a[2] : a \in {b \in SyncedManifest.distTags :
                       b[1] = t /\ b[2] \in packageInfo.versions}}

\* what a settled getPackageByOptions answers when the package was yielded:
\* packageInfo is the merged manifest
AnswersQuery ==
    LET v == options.version
    IN  IF v = NoVersion
        THEN /\ mresult.err = "none"
             /\ mresult.body.versions = packageInfo.versions
             /\ mresult.body.distTags \subseteq packageInfo.distTags
        ELSE IF v \in packageInfo.versions
             THEN mresult.err = "none" /\ mresult.body = [version |-> v]
             ELSE IF TagTargets(v) # {}
                  THEN /\ mresult.err = "none"
                       /\ \E t \in TagTargets(v) : mresult.body = [version |-> t]
                  ELSE mresult.err = "VersionNotExist"

C19_PublishGate ==
    mop \in AddOps =>
        /\ localManifest # localManifest0 =>
               steps = <<"checkPackageLocal", "checkPackageRemote", "publishPackage">>
        /\ (mpc = "done" /\ faults = 0
              /\ (localManifest0 # NoManifest \/ Succeeded # {})) =>
               /\ mresult.err = "Conflict"
               /\ localManifest = localManifest0

\* C20: on a local tarball miss getTarball reads the local manifest without
\* any uplink metadata sync; when the manifest has no _distfiles[filename]
\* entry the request fails with NOT_FOUND and no upstream fetch is opened.
C20_NoSyncOnMiss ==
    [][\A p \in Procs :
          (pc[p] = "g_meta" /\ ~distfile /\ pc'[p] # pc[p]) =>
              /\ pc'[p] = "done"
              /\ result'[p] = NotFound
              /\ up'[p] = "none"]_vars

\* C21: when getTarball is called with enableRemote false and the tarball
\* is absent locally, the local NOT_FOUND goes to the caller, no uplink is
\* contacted and no cache write is opened.
C21_RemoteDisabled ==
    \A p \in Procs :
        (op[p] = "getTarballNext" /\ ~enableRemote[p]) =>
            /\ up[p] = "none"
            /\ fd[p] = "none"
            /\ (pc[p] = "done" /\ result[p] # "ok") => result[p] \in {NotFound, "EIO"}

\* C22: after a getTarball that fell back to a caching uplink has delivered
\* end-of-stream to its caller, every later getTarball for the same
\* (name, filename) is served from local storage alone: no manifest lookup
\* for a fallback and no uplink contact.
C22_ServedLocallyAfterEnd ==
    \A q \in Procs :
        afterEnd[q] =>
            /\ pc[q] \notin {"g_meta", "g_sync"}
            /\ up[q] = "none"

-----------------------------------------------------------------------------
(* getLocalDatabase: the private packages are listed by the storage plugin  *)
(* and read one after the other.                                            *)

\* Longest list of local package names.
MaxLocals == 3

\* what getPackageMetadata yields for a listed name: an error, or a
\* manifest with its dist-tags.latest ("" when there is none) and versions
PackageReads ==
    {[err |-> TRUE, latest |-> "", versions |-> {}]} \cup
    {[err |-> FALSE, latest |-> l, versions |-> v] :
        l \in {"", LocalVersion}, v \in SUBSET {LocalVersion}}

\* the latest version of package i, as pushed on `packages`
LatestRecord(i, pkgMetadata) == [package |-> i, version |-> pkgMetadata.latest]

\* the completion of one getPackageMetadata call inside getPackage(itemPkg)
PushLatest(pkgMetadata) ==
    IF /\ ~pkgMetadata.err
       /\ pkgMetadata.latest # ""
       /\ pkgMetadata.latest \in pkgMetadata.versions
    THEN Append(packages, LatestRecord(itemPkg, pkgMetadata))
    ELSE packages

\* getLocalDatabase(callback): storagePlugin.get() resolves with the list;
\* an empty list is answered at once, else getPackage(0) is called
getLocalDatabase ==
    /\ dbpc = "idle"
    /\ IF Len(locals) = 0
       THEN /\ dbCallback' = Append(dbCallback, [err |-> "none", packages |-> <<>>])
            /\ dbpc' = "done"
            /\ UNCHANGED itemPkg
       ELSE /\ itemPkg' = 1
            /\ dbpc' = "getPackage"
            /\ UNCHANGED dbCallback
    /\ UNCHANGED <<locals, packages, faults>>

\* storagePlugin.get() rejects: the catch handler calls back with the error
getRejected ==
    /\ dbpc = "idle"
    /\ faults < MaxFaults
    /\ faults' = faults + 1
    /\ dbCallback' = Append(dbCallback, [err |-> "EIO", packages |-> <<>>])
    /\ dbpc' = "done"
    /\ UNCHANGED <<locals, itemPkg, packages>>

getPackageMetadata_StopOnError ==
    /\ dbpc = "getPackage"
    /\ packages' = PushLatest(locals[itemPkg])
    /\ IF itemPkg >= Len(locals) \/ locals[itemPkg].err
       THEN /\ dbCallback' = Append(dbCallback, [err |-> "none", packages |-> packages'])
            /\ dbpc' = "done"
            /\ UNCHANGED itemPkg
       ELSE /\ itemPkg' = itemPkg + 1
            /\ UNCHANGED <<dbCallback, dbpc>>
    /\ UNCHANGED <<locals, faults>>

\* the callback of getPackageMetadata for locals[itemPkg]: the latest
\* version is pushed when there is one, then the last item calls back and
\* any other goes on with getPackage(itemPkg + 1)
getPackageMetadata_cb ==
    /\ dbpc = "getPackage"
    /\ packages' = PushLatest(locals[itemPkg])
    /\ IF itemPkg >= Len(locals)
       THEN /\ dbCallback' = Append(dbCallback, [err |-> "none", packages |-> packages'])
            /\ dbpc' = "done"
            /\ UNCHANGED itemPkg
       ELSE /\ itemPkg' = itemPkg + 1
            /\ UNCHANGED <<dbCallback, dbpc>>
    /\ UNCHANGED <<locals, faults>>

dbOther == <<pkgJson0, win32, dirExists, pkgJson, tmpFile, displaced,
             lockHolder, pc, op, wr, rd, locked, result, origErr, unlockErr,
             bg, tarVars, mergeVars, filterLog, pipeVars>>

InitLocalDatabase ==
    /\ InitTasks
    /\ win32 = FALSE
    /\ tarball = TAbsent
    /\ distfile = FALSE
    /\ dirExists = TRUE
    /\ pkgJson = Absent
    /\ pkgJson0 = pkgJson
    /\ localManifest = NoManifest
    /\ localManifest0 = NoManifest
    /\ MergeIdle
    /\ PipeIdle
    /\ locals \in UNION {[1..n -> PackageReads] : n \in 0..MaxLocals}
    /\ itemPkg = 0
    /\ packages = <<>>
    /\ dbpc = "idle"
    /\ dbCallback = <<>>

NextLocalDatabase ==
    \/ getLocalDatabase /\ UNCHANGED dbOther
    \/ getRejected /\ UNCHANGED dbOther
    \/ getPackageMetadata_cb /\ UNCHANGED <<dbOther>>

SpecLocalDatabase == InitLocalDatabase /\ [][NextLocalDatabase]_vars

\* the packages of the list that were read and whose dist-tags.latest names
\* one of their versions, in listing order
Listed ==
    LET Good(i) == /\ ~locals[i].err
                   /\ locals[i].latest # ""
                   /\ locals[i].latest \in locals[i].versions
        idx == {i \in 1..Len(locals) : Good(i)}
        Rank(i) == Cardinality({j \in idx : j <= i})
    IN  [k \in 1..Cardinality(idx) |->
            LET i == CHOOSE j \in idx : Rank(j) = k
            IN  [package |-> i, version |-> locals[i].latest]]

\* C23: for every list of local package names getLocalDatabase calls back
\* exactly once and without an error, even when reading some packages
\* fails: those are skipped, the others are still enumerated, and the result
\* holds, in listing order, exactly the latest-version record of each
\* package that was read and whose dist-tags.latest names an existing
\* version.
C23_LocalDatabase ==
    /\ Len(dbCallback) <= 1
    /\ (dbpc = "done" /\ faults = 0) =>
           dbCallback = <<[err |-> "none", packages |-> Listed]>>

C23_Witness ==
    /\ dbpc = "done" /\ faults = 0
    /\ Len(locals) = MaxLocals
    /\ ~locals[1].err /\ locals[2].err
    /\ Len(dbCallback) = 1
    /\ Len(dbCallback[1].packages) = 2

\* C24: whenever <filename> exists its content is the complete upload of a
\* write that ended successfully: a write stream that was aborted never
\* creates or replaces <filename>.
C24_OnlyCompleteTarballs ==
    \A p \in Procs :
        (tarball # TAbsent /\ tarball.by = p) =>
            /\ ~aborted[p]
            /\ tarball.n = TotalChunks

\* the upstream fetch of task p's getTarball failed
UpstreamFailed(p) == op[p] = "getTarball" /\ up[p] = "error"

\* C25: when the upstream stream of a remote fallback errors, the caller
\* receives that error, the cache writer is aborted and never marked done
\* afterwards, and once the request's file calls have run neither a staging
\* file of the request exists nor has <filename> been created by it.
C25_UpstreamErrorCleansUp ==
    /\ [](\A p \in Procs :
            UpstreamFailed(p) =>
                /\ result[p] = "UpstreamError"
                /\ ~sv[p]
                /\ "rename" \notin closeL[p]
                /\ tarball.by # p
                /\ pc[p] = "done" => ~ttmp[p])
    /\ [][\A p \in Procs :
            (UpstreamFailed(p) /\ aborted[p]) =>
                aborted'[p] /\ closeL'[p] \subseteq closeL[p] \cup {"remove"}]_vars

C25_Witness ==
    \E p \in Procs :
        /\ UpstreamFailed(p)
        /\ aborted[p]
        /\ fd[p] = "closed"
        /\ pc[p] = "done"
        /\ ~ttmp[p]
        /\ tarball = TAbsent

\* C26: in the remote fallback the upstream fetchTarball is started exactly
\* once per request, and with a caching uplink not before the cache writer
\* has emitted open or error, whatever open and error events the writer
\* emits and in whatever order.
C26_FetchOnce ==
    /\ [](\A p \in Procs :
            op[p] = "getTarball" =>
                /\ fetches[p] <= 1
                /\ fetches[p] = 1 <=> up[p] # "none")
    /\ [][\A p \in Procs :
            fetches'[p] > fetches[p] =>
                \/ fd[p] = "opening" /\ fd'[p] = "open" /\ opened'[p]
                \/ pc[p] = "t_access" /\ aborted'[p] /\ ~sv'[p]
                \/ pc[p] \in {"g_meta", "g_sync"} /\ ~sv'[p]]_vars

C26_Witness ==
    \E p \in Procs :
        /\ op[p] = "getTarball"
        /\ fetches[p] = 1
        /\ aborted[p]
        /\ fd[p] = "closed"
        /\ up[p] = "ended"

\* the cache writer of task p's getTarball reported an error and the
\* upstream fetch did not fail
WriterFailed(p) == op[p] = "getTarball" /\ aborted[p] /\ up[p] # "error"

C28_NoFallbackAfterOpen ==
    [][\A p \in Procs :
          pc[p] \in {"g_open", "n_open"} =>
              /\ pc'[p] \in {pc[p], "done"}
              /\ up'[p] = "none"
              /\ fd'[p] = "none"
              /\ recv'[p] = recv[p]]_vars

\* uplink u answered the merge in progress with a manifest, which was merged
Supplied(u) ==
    /\ mpc \in {"fanout", "updateVersions", "done"}
    /\ ustate[u] = "done"
    /\ remoteCalls[u] > 0
    /\ upLinksErrors[u] = "none"

\* C29: when two selected uplinks both supply a version that is absent
\* locally, the merged record of that version is the one from the uplink
\* listed first in the configuration, whatever order the responses arrive in.
C29_FirstConfiguredWins ==
    \A u, w \in Uplinks :
        (u < w /\ Supplied(u) /\ Supplied(w)) =>
            SharedRecord(w) \notin packageInfo.versions

RecordChanged(u, old, new) ==
    \/ (u \in DOMAIN new.uplinks) # (u \in DOMAIN old.uplinks)
    \/ u \in DOMAIN new.uplinks /\ new.uplinks[u] # old.uplinks[u]

\* C31: during a merge _uplinks[u] changes only when uplink u answered 304
\* or answered with a body that was validated and merged; a network error,
\* a validation failure or a version-merge failure leaves it unchanged.
C31_FetchedOnlyOnSuccess ==
    [][\A u \in Uplinks :
          (/\ mpc = "fanout" /\ mpc' = "fanout"
           /\ ustate[u] = "called" /\ ustate'[u] = "done"
           /\ upLinksErrors'[u] \notin {"none", "E304"})
          => ~RecordChanged(u, packageInfo, packageInfo')]_vars

\* a getPackage call that asked for no uplink lookup has entered the merge
LocalOnlyMerge ==
    /\ mop = "getPackage" /\ ~options.uplinksLook
    /\ mpc \in {"fanout", "updateVersions", "done"}
    /\ packageInfo # NoManifest

\* C32: when uplinksLook is false the merge calls getRemoteMetadata on no
\* uplink, writes nothing to local storage and runs no filter, and returns
\* the local manifest it was given unchanged, or NotFound when there is no
\* local manifest.
C32_NoLookup ==
    LocalOnlyMerge =>
        /\ upLinks = {}
        /\ \A u \in Uplinks : remoteCalls[u] = 0 /\ ustate[u] = "wait"
        /\ mpc # "updateVersions"
        /\ \A i \in 1..Len(steps) : steps[i] # "updateVersions"
        /\ localManifest = localManifest0
        /\ packageInfo = IF data = NoManifest THEN generatePackageTemplate ELSE data
        /\ mpc = "done" =>
              IF data = NoManifest
              THEN mresult.err = "NotFound"
              ELSE /\ mresult.err = "none"
                   /\ mresult.body = normalizeDistTags(data)
                   /\ mresult.errors = {}

C32_Witness ==
    /\ LocalOnlyMerge /\ mpc = "done"
    /\ data # NoManifest /\ data.versions # {}
    /\ mresult.err = "none"
    /\ mresult.body.versions = data.versions

\* the getPackage call has persisted the merged manifest and returned
FilteredReturn ==
    /\ mop = "getPackage" /\ mpc = "done"
    /\ \E i \in 1..Len(steps) : steps[i] = "updateVersions"

WriterOpened(p) == sv[p] \/ aborted[p] \/ fd[p] # "none" \/ pc[p] = "t_access"

\* C34: in the remote fallback of getTarball the uplink used is a configured
\* uplink with proxy access to the package, or, when there is none, an
\* ad-hoc uplink with caching enabled; a local cache write stream is opened
\* if and only if the uplink used has caching enabled.
C34_UplinkChoice ==
    \A p \in Procs :
        (op[p] = "getTarball" /\ uplink[p] # NoUplink) =>
            /\ proxyTo.known
            /\ IF proxyTo.to = {}
               THEN uplink[p].kind = "adhoc" /\ uplink[p].cache
               ELSE /\ uplink[p].kind = "configured"
                    /\ uplink[p].id \in proxyTo.to
                    /\ uplink[p].cache = (uplink[p].id \in CachingUplinks)
            /\ WriterOpened(p) = uplink[p].cache

C34_Witness ==
    \E p \in Procs :
        /\ op[p] = "getTarball"
        /\ uplink[p].kind = "configured" /\ ~uplink[p].cache
        /\ proxyTo.to = Uplinks
        /\ up[p] = "ended" /\ result[p] = "ok"
        /\ ~WriterOpened(p)

\* C35: when the rename of the staged temp file onto package.json fails,
\* the manifest write fails with the rename error: it is never reported as
\* a success, the removal of the temp file does not replace or hide the
\* error, and package.json keeps its previous content.
C35_RenameErrorReported ==
    [][\A p \in Procs :
          /\ (pc[p] = "w_unlink_src" /\ pc'[p] = "done") => result'[p] # "ok"
          /\ (pc[p] \in {"w_rename", "w_rename2"} /\ faults' > faults) =>
                /\ pkgJson' = pkgJson
                /\ pc'[p] = "done" => result'[p] = "EPERM"]_vars

\* C36: on the win32 rename path, once a manifest write over an existing
\* package.json has completed without error, package.json holds the new
\* content and neither the staged temp file nor the displaced old file
\* remains.
C36_Win32WriteLands ==
    \A p \in Procs :
        (/\ win32 /\ Alone(p)
         /\ op[p] \in {"savePackageNext", "savePackage"}
         /\ pkgJson0.kind = "json"
         /\ pc[p] = "done" /\ result[p] = "ok" /\ bg[p] = {})
        => /\ pkgJson = Json(wr[p])
           /\ tmpFile[p] = Absent
           /\ displaced[p] = Absent

\* C37: of two concurrent addPackage calls for a name that exists neither
\* locally nor on any uplink at most one succeeds, and the manifest stored
\* afterwards is the one published by the successful call.  (Stated for
\* runs without an injected I/O failure, on the non-win32 path.)
C37_OnePublisher ==
    (/\ ~win32
     /\ faults = 0
     /\ pkgJson0 = Absent
     /\ \A p \in Procs : op[p] = "addPackageNext" /\ pc[p] = "done")
    => /\ Cardinality({p \in Procs : result[p] = "ok"}) <= 1
       /\ \A p \in Procs : result[p] = "ok" => pkgJson = Json({p})

-----------------------------------------------------------------------------
(* getTarballNext on a tarball that is present locally: the plugin's        *)
(* readTarballNext, then the facade's pipeline into a PassThrough that has  *)
(* no consumer until it is returned.                                        *)

\* Chunks a PassThrough buffers before it stops accepting more.
HighWaterMark == 3

\* Largest tarball, in chunks: larger than a stream buffer
MaxSize == HighWaterMark + 2

Plugins == {"local-fs", "memory"}

getVarsNext == <<plugin, size, stage, fileLeft, passStream, localTarballStream,
                 consumed, signalAborted>>

routeVars == <<viaRoute, listener, connAborted>>

changeVars == <<changeCall, localChange>>

\* getTarballNext calls getLocalTarball: the memory plugin pipes the file
\* into its passStream before it returns, local-fs returns the file stream
readTarballNext ==
    /\ stage = "idle"
    /\ fileLeft' = size
    /\ stage' = IF plugin = "memory" THEN "plugin" ELSE "facade"
    /\ UNCHANGED <<plugin, size, passStream, localTarballStream, consumed,
                   signalAborted, routeVars, changeVars>>

\* memory plugin, await pipeline(readStream, passStream): a chunk moves
\* while the passStream, which nobody reads, accepts it
PluginPipe ==
    /\ stage = "plugin"
    /\ fileLeft > 0 /\ passStream < HighWaterMark
    /\ fileLeft' = fileLeft - 1
    /\ passStream' = passStream + 1
    /\ UNCHANGED <<plugin, size, stage, localTarballStream, consumed,
                   signalAborted, routeVars, changeVars>>

\* memory plugin: the file has ended, the pipeline resolves and the
\* passStream is returned to getTarballNext
PluginReturn ==
    /\ stage = "plugin"
    /\ fileLeft = 0
    /\ stage' = "facade"
    /\ UNCHANGED <<plugin, size, fileLeft, passStream, localTarballStream,
                   consumed, signalAborted, routeVars, changeVars>>

\* getTarballNext, await pipeline(localStream, localTarballStream): a chunk
\* moves while localTarballStream, which nobody reads yet, accepts it
FacadePipe ==
    /\ stage = "facade"
    /\ localTarballStream < HighWaterMark
    /\ IF plugin = "memory"
       THEN /\ passStream > 0
            /\ passStream' = passStream - 1
            /\ UNCHANGED fileLeft
       ELSE /\ fileLeft > 0
            /\ fileLeft' = fileLeft - 1
            /\ UNCHANGED passStream
    /\ localTarballStream' = localTarballStream + 1
    /\ UNCHANGED <<plugin, size, stage, consumed, signalAborted, routeVars,
                   changeVars>>

\* the local stream has ended: the pipeline resolves and getTarballNext
\* returns localTarballStream
FacadeReturn ==
    /\ stage = "facade"
    /\ fileLeft = 0 /\ passStream = 0
    /\ stage' = "returned"
    /\ UNCHANGED <<plugin, size, fileLeft, passStream, localTarballStream,
                   consumed, signalAborted, routeVars, changeVars>>

\* route handler, after getTarballNext has resolved: req.on('aborted', ...)
RegisterListener ==
    /\ viaRoute
    /\ stage = "returned"
    /\ ~listener
    /\ listener' = TRUE
    /\ UNCHANGED <<getVarsNext, viaRoute, connAborted, changeVars>>

\* the caller reads a chunk from the stream it was given; the route handler
\* pipes it to the response after it has registered its listener
Consume ==
    /\ stage = "returned"
    /\ viaRoute => listener
    /\ ~signalAborted
    /\ localTarballStream > 0
    /\ localTarballStream' = localTarballStream - 1
    /\ consumed' = consumed + 1
    /\ UNCHANGED <<plugin, size, stage, fileLeft, passStream, signalAborted,
                   routeVars, changeVars>>

\* a caller of the facade aborts its signal: addAbortSignal destroys the
\* file stream and a pending pipeline rejects
SignalFires ==
    /\ ~viaRoute
    /\ stage \in {"plugin", "facade", "returned"}
    /\ ~signalAborted
    /\ signalAborted' = TRUE
    /\ stage' = IF stage = "returned" THEN stage ELSE "failed"
    /\ UNCHANGED <<plugin, size, fileLeft, passStream, localTarballStream,
                   consumed, routeVars, changeVars>>

\* the client connection is aborted while the handler runs: the request
\* emits 'aborted', and abort.abort() runs only if the listener is there
ClientAborts ==
    /\ viaRoute
    /\ stage \in {"plugin", "facade", "returned"}
    /\ ~connAborted
    /\ connAborted' = TRUE
    /\ signalAborted' = (signalAborted \/ listener)
    /\ UNCHANGED <<plugin, size, stage, fileLeft, passStream,
                   localTarballStream, consumed, viaRoute, listener,
                   changeVars>>

\* the facade's changePackageNext: it calls the local storage's
\* changePackageNext without awaiting or returning its promise, so its own
\* promise resolves as soon as the call has been made
changePackageNext ==
    /\ changeCall = "idle"
    /\ localChange' = "pending"
    /\ changeCall' = "resolved"
    /\ UNCHANGED <<getVarsNext, routeVars>>

\* the local storage's change finishes
LocalChangeDone ==
    /\ localChange = "pending"
    /\ localChange' = "done"
    /\ UNCHANGED <<getVarsNext, routeVars, changeCall>>

\* the local storage's change fails: its promise rejects
LocalChangeFails ==
    /\ localChange = "pending"
    /\ localChange' = "failed"
    /\ UNCHANGED <<getVarsNext, routeVars, changeCall>>

pipeOther == <<pkgJson0, win32, dirExists, pkgJson, tmpFile, displaced,
               lockHolder, pc, op, wr, rd, locked, result, origErr,
               unlockErr, bg, faults, tarVars, mergeVars, dbVars, filterLog>>

InitFacade ==
    /\ InitTasks
    /\ win32 = FALSE
    /\ tarball = TFile(0, TotalChunks)
    /\ distfile = FALSE
    /\ dirExists = TRUE
    /\ pkgJson = Absent
    /\ pkgJson0 = pkgJson
    /\ localManifest = NoManifest
    /\ localManifest0 = NoManifest
    /\ MergeIdle
    /\ DbIdle
    /\ plugin \in Plugins
    /\ size \in 0..MaxSize
    /\ viaRoute \in BOOLEAN
    /\ stage = "idle"
    /\ fileLeft = 0
    /\ passStream = 0
    /\ localTarballStream = 0
    /\ consumed = 0
    /\ signalAborted = FALSE
    /\ listener = FALSE
    /\ connAborted = FALSE
    /\ changeCall = "idle"
    /\ localChange = "idle"

FacadeSteps ==
    \/ readTarballNext /\ UNCHANGED pipeOther
    \/ PluginPipe /\ UNCHANGED pipeOther
    \/ PluginReturn /\ UNCHANGED pipeOther
    \/ FacadePipe /\ UNCHANGED pipeOther
    \/ FacadeReturn /\ UNCHANGED pipeOther
    \/ RegisterListener /\ UNCHANGED pipeOther
    \/ Consume /\ UNCHANGED pipeOther
    \/ LocalChangeDone /\ UNCHANGED pipeOther

NextFacade ==
    \/ FacadeSteps
    \/ SignalFires /\ UNCHANGED pipeOther
    \/ ClientAborts /\ UNCHANGED pipeOther
    \/ changePackageNext /\ UNCHANGED pipeOther
    \/ LocalChangeFails /\ UNCHANGED pipeOther

\* the streams, the handler and the local storage keep running; no signal
\* need fire, no connection need abort and no change need fail
SpecFacade ==
    InitFacade /\ [][NextFacade]_vars /\ WF_vars(FacadeSteps)

\* C38: for a tarball that is present locally getTarballNext eventually
\* returns a readable stream to its caller, whatever the tarball's size,
\* sizes beyond the stream buffer capacity included, although nothing reads
\* the stream before it is returned.  (A call whose signal aborts may fail
\* instead.)
C38_EventuallyReturns == <>(stage \in {"returned", "failed"})

\* C39: changePackageNext completes only after the local storage's change
\* has finished, and fails whenever that change fails.
C39_DelegatedOutcome ==
    /\ changeCall = "resolved" => localChange = "done"
    /\ localChange = "failed" => changeCall = "rejected"

\* C40: once the client connection of a GET /new/:pkg/-/:filename request is
\* aborted after the handler has started, getTarballNext still pending
\* included, the abort signal passed to getTarballNext is triggered.
C40_AbortReachesSignal == connAborted => signalAborted

====
